---------------------------- MODULE Spec2Model ----------------------------
(***************************************************************************)
(* A model of the RPC multiplexing engine of pug_protocol:                 *)
(*   rpc/channel.py    BufferingBaseChannel (send queue, send loop)        *)
(*   rpc/websocket.py  WebsocketBaseChannel / WebsocketClientChannel       *)
(*   rpc/rpc.py        RPC, RPC.Stream, ResponseFuture                     *)
(*   client/session.py Session (authenticate, transcribe, ping)            *)
(*                                                                         *)
(* A frame and a payload are Python dicts: functions from string keys to   *)
(* string values.  A JSON value that is not a string is one of NonStr.     *)
(***************************************************************************)
EXTENDS Naturals, Sequences, FiniteSets, TLC

VARIABLES
    websocket,               \* WebsocketBaseChannel.websocket is not None
    send_queue,              \* BufferingBaseChannel._send_queue
    send_task,               \* the send_loop task: "none", "idle", "writing", "done", "failed"
    sending,                 \* the frame send_loop took and is writing (at most one)
    wire,                    \* the frames written to the transport, in order
    accepted,                \* history: the frames send() enqueued, in order
    exit_stack,              \* BufferingBaseChannel._exit_stack: the contexts entered, in order
    recv_task,               \* the _recv_loop task: "none", "running", "handling",
                             \* "closing", "exited"
    recv_error,              \* history: the exception that ended _recv_loop ("" if none)
    dispatched,              \* history: number of frames _recv_loop took from the channel
    last_frame,              \* history: the frame the step just taken dispatched (at most one)
    route,                   \* history: the branch that frame was dispatched to
    future_by_uid,           \* RPC._future_by_uid: uid -> state of the asyncio.Future
    derived,                 \* uid -> state of the future transform() derived from it
    incoming_by_stream_uid,  \* RPC._incoming_by_stream_uid: uid -> index into queues
    queues,                  \* the asyncio.Queue objects made by _register_stream
    arrived,                 \* history: per queue, all that put_nowait enqueued
    streams,                 \* the RPC.Stream handles and the task calling recv() on each
    handler_calls,           \* history: the (uid, kind) the new-stream handler was given
    new_stream_handler,      \* RPC._new_stream_handler: "none", or what the handler does:
                             \* "log" (it returns), "accept" (it calls accept_stream)
    uuids,                   \* number of uuid.uuid4() values drawn
    requested,               \* history: uid -> the kind make_request was called with
    last_call,               \* history: the sending operation the step just taken called (at most one)
    stop,                    \* RPC.__aexit__: how far the exit stack has unwound
    request_handler,         \* RPC._request_handler: "none", or what the handler does
    access_token,            \* Session.access_token ("" when there is none)
    peer_dispatched,         \* a second engine at the other end: number of frames of
                             \* wire its _recv_loop has dispatched
    peer_wire,               \* the frames the second engine has written, in order
    raised                   \* history: what the step just taken raised to its caller ("" if nothing)

vars == << websocket, send_queue, send_task, sending, wire, accepted, recv_task,
           recv_error, dispatched, last_frame, route, future_by_uid, derived,
           incoming_by_stream_uid, queues, arrived, streams, handler_calls,
           new_stream_handler, uuids, requested, last_call, stop, raised,
           exit_stack, request_handler, access_token, peer_dispatched, peer_wire >>

\* a step that is not a turn of the receive loop dispatches no frame
NoDispatch == last_frame' = << >> /\ route' = ""

\* a step that calls no sending operation
NoCall == last_call' = << >>

\* a step that calls the sending operation op for uid with kind and fields
Called(op, uid, kind, fields) ==
    last_call' = << [op |-> op, uid |-> uid, kind |-> kind, fields |-> fields] >>

chan_vars   == << websocket, send_queue, send_task, sending, wire, accepted,
                 exit_stack >>
conf_vars   == << request_handler, access_token >>
peer_vars   == << peer_dispatched, peer_wire >>
loop_vars   == << recv_task, recv_error >>
req_vars    == << future_by_uid, derived >>
stream_vars == << incoming_by_stream_uid, queues, arrived, streams >>

\* a step that calls Stream.fail(error, fields) on the stream uid
CalledFail(uid, error, fields) ==
    last_call' = << [op |-> "fail", uid |-> uid, kind |-> "error",
                     fields |-> fields, error |-> error] >>

---------------------------------------------------------------------------
(* Bounds of the model. *)

MaxRequests == 2      \* make_request calls
MaxStreams  == 1      \* Stream handles made by open_stream
MaxHandles  == 2      \* Stream handles in all (open_stream and accept_stream)
MaxInbound  == 2      \* frames the peer delivers (requests and responses, channel)
MaxStreamIn == 4      \* frames the peer delivers (streams)
MaxCancelIn == 3      \* frames the peer delivers (streams whose recv() is cancelled)
MaxSends    == 2      \* Stream.send calls per handle
MaxCancels  == 1      \* cancellations of a pending recv()
MaxUnsolicited == 3   \* frames the peer delivers (requests and streams it opens)
MaxStopIn   == 2      \* frames dispatched before and while the engine stops
MaxCloses   == 2      \* calls of close(), fail(), close_silently() on one Stream
MaxAccepted == 3      \* frames accepted by send() before send_response stops
MaxCalls    == 3      \* requests and stream calls made with agreeing or conflicting fields
MaxCloseCalls == 2    \* stream calls made on streams that are closed from this side
MaxCloseIn  == 2      \* frames dispatched while streams are closed locally
MaxInterruptIn == 2   \* frames dispatched up to and after a top-level error
MaxSessionIn == 2     \* frames dispatched to a started Session
MaxFailIn   == 1      \* frames dispatched to an engine whose transport fails
MaxBadIn    == 2      \* frames dispatched among which error responses without an error
MaxAcceptIn == 3      \* frames dispatched on the streams the peer opens
MaxHandlerIn == 3     \* frames dispatched to an engine whose handlers suspend
MaxEndIn    == 2      \* frames dispatched before the receive loop ends
MaxExchange == 4      \* frames dispatched by an engine connected to another engine
MaxPeerStreams == 2   \* streams the other engine opens, uses and closes
MaxTableIn  == 2      \* frames dispatched while handles are closed and uids accepted again
MaxTableCalls == 2    \* stream calls made while handles are closed and uids accepted again

---------------------------------------------------------------------------
(* Python dicts. *)

EmptyMap == [k \in {} |-> ""]

\* fields=None
None == [none |-> "none"]

\* a | b
Merge(a, b) ==
    [k \in DOMAIN a \cup DOMAIN b |-> IF k \in DOMAIN b THEN b[k] ELSE a[k]]

\* the **fields of a mapping pattern: the keys the pattern did not name
Rest(d, named) == [k \in DOMAIN d \ named |-> d[k]]

\* d[k] = v for a dict held in a table
Put(d, k, v) == [x \in DOMAIN d \cup {k} |-> IF x = k THEN v ELSE d[x]]

\* JSON values that are not strings (a number, null, a list)
NonStr == {"<int>"}

\* the pattern str(x)
IsStr(v) == v \notin NonStr

\* uuid.uuid4(): the n-th value drawn
Uuid4(n) == <<"u1", "u2", "u3", "u4", "u5", "u6", "u7", "u8">>[n]

\* an f-string that ends with {value!r}: the text, then what repr shows
Format(text, value) == << text, value >>

NoErr == [type |-> "", msg |-> ""]

Exc(type, msg) == [type |-> type, msg |-> msg]

---------------------------------------------------------------------------
(* RPC: building outgoing frames. *)

\* a _normalize_kind_and_fields that never raises
KindConflictIgnored(kind, fields) == FALSE

\* _normalize_kind_and_fields raises ValueError
KindConflict(kind, fields) ==
    /\ fields # None
    /\ "kind" \in DOMAIN fields
    /\ fields["kind"] # kind

NormalizeKindAndFields(kind, fields) ==
    IF fields = None THEN [kind |-> kind] ELSE Merge(fields, [kind |-> kind])

RequestMessage(uid, kind, fields) ==
    Merge([type |-> "request", uid |-> uid], NormalizeKindAndFields(kind, fields))

ResponseMessage(uid, kind, fields) ==
    Merge([type |-> "response", uid |-> uid], NormalizeKindAndFields(kind, fields))

StreamMessage(uid, kind, fields) ==
    Merge([type |-> "stream", uid |-> uid], NormalizeKindAndFields(kind, fields))

\* send_stream_error(uid, error): fields = {} | {"error": error}
StreamErrorMessage(uid, error) ==
    StreamMessage(uid, "error", Merge(EmptyMap, [error |-> error]))

ToplevelErrorMessage(error) == [type |-> "error", error |-> error]

ErrorResponseMessage(uid, error) == ResponseMessage(uid, "error", [error |-> error])

---------------------------------------------------------------------------
(* BufferingBaseChannel / WebsocketBaseChannel. *)

\* a queue that puts the new item first
QueuePutFirst(q, m) == << m >> \o q

\* asyncio.Queue.put_nowait
QueuePut(q, m) == Append(q, m)

\* a get that returns the newest item
QueueNewest(q) == q[Len(q)]

\* the item asyncio.Queue.get returns, and the queue it leaves
QueueHead(q) == Head(q)

QueueRest(q) == Tail(q)

\* a send that does not look at is_connected
SendRaisesNever == FALSE

\* BufferingBaseChannel.send raises RuntimeError("not connected")
SendRaises == ~websocket

\* BufferingBaseChannel.send, connected: self._send_queue.put_nowait(message)
ChannelSend(m) ==
    /\ send_queue' = QueuePut(send_queue, m)
    /\ accepted' = Append(accepted, m)
    /\ UNCHANGED << websocket, send_task, sending, wire, exit_stack >>

\* send_loop: data = await self._send_queue.get()
SendLoopGet ==
    /\ send_task = "idle"
    /\ send_queue # << >>
    /\ sending' = << QueueHead(send_queue) >>
    /\ send_queue' = QueueRest(send_queue)
    /\ send_task' = "writing"
    /\ UNCHANGED << websocket, wire, accepted, exit_stack >>
    /\ NoDispatch
    /\ NoCall
    /\ UNCHANGED << stop, conf_vars, peer_vars >>
    /\ UNCHANGED << loop_vars, dispatched, req_vars, stream_vars,
                    handler_calls, new_stream_handler, uuids, requested >>
    /\ raised' = ""

\* send_loop: await self._send_impl(data) returns; the frame is on the wire
SendLoopWrite ==
    /\ send_task = "writing"
    /\ wire' = Append(wire, sending[1])
    /\ sending' = << >>
    /\ send_task' = "idle"
    /\ UNCHANGED << websocket, send_queue, accepted, exit_stack >>
    /\ NoDispatch
    /\ NoCall
    /\ UNCHANGED << stop, conf_vars, peer_vars >>
    /\ UNCHANGED << loop_vars, dispatched, req_vars, stream_vars,
                    handler_calls, new_stream_handler, uuids, requested >>
    /\ raised' = ""

\* send_loop: await self._send_impl(data) raises (the connection is lost):
\* the loop logs the exception and re-raises it, the task is over and the
\* frame is not on the wire
SendLoopWriteFails ==
    /\ send_task = "writing"
    /\ send_task' = "failed"
    /\ sending' = << >>
    /\ UNCHANGED << websocket, send_queue, wire, accepted, exit_stack >>
    /\ NoDispatch
    /\ NoCall
    /\ UNCHANGED << stop, conf_vars, peer_vars >>
    /\ UNCHANGED << loop_vars, dispatched, req_vars, stream_vars,
                    handler_calls, new_stream_handler, uuids, requested >>
    /\ raised' = ""

\* the newest context of an exit stack, and the stack without it
Top(stack) == stack[Len(stack)]

Pop(stack) == SubSeq(stack, 1, Len(stack) - 1)

\* BufferingBaseChannel.close, first half: self._exit_stack.aclose() leaves
\* the newest context, scoped_background_task(send_loop): task.cancel(), then
\* await task.  A write that is under way when the cancellation lands has
\* reached the transport (written) or has not: both are possible.  A send
\* loop that had failed stays failed.  On an exit stack that holds nothing
\* aclose() does nothing.  ms are frames enqueued by the caller of close just
\* before (fail sends its error frame first).
ChannelCloseBegin(ms, written) ==
    /\ send_queue' = IF ms = << >> THEN send_queue ELSE QueuePut(send_queue, ms[1])
    /\ accepted' = accepted \o ms
    /\ IF exit_stack # << >> /\ Top(exit_stack) = "send_loop"
       THEN /\ exit_stack' = Pop(exit_stack)
            /\ send_task' = IF send_task = "failed" THEN "failed" ELSE "done"
            /\ sending' = << >>
            /\ wire' = IF send_task = "writing" /\ written
                       THEN Append(wire, sending[1]) ELSE wire
       ELSE UNCHANGED << exit_stack, send_task, sending, wire >>
    /\ UNCHANGED websocket

\* a send loop whose failure is not passed on
SendLoopErrorSwallowed == ""

\* the exception "await task" raises in scoped_background_task when the
\* send loop is over: what send_loop re-raised, if it failed
SendLoopError == IF send_task = "failed" THEN "ConnectionClosed" ELSE ""

\* BufferingBaseChannel.close, second half: the exit stack leaves _with_socket
\* (the connection closes, self.websocket = None).  close() then raises what
\* the send loop had failed with, or returns to _recv_loop, whose next
\* self.channel.recv() raises RuntimeError("not connected"): either way the
\* loop logs the exception and exits.
ChannelCloseFinish ==
    /\ recv_task = "closing"
    /\ websocket' = FALSE
    /\ exit_stack' = << >>
    /\ recv_task' = "exited"
    /\ recv_error' = IF SendLoopError # "" THEN SendLoopError ELSE "RuntimeError"
    /\ UNCHANGED << send_queue, send_task, sending, wire, accepted >>
    /\ NoDispatch
    /\ NoCall
    /\ UNCHANGED << stop, conf_vars, peer_vars >>
    /\ UNCHANGED << dispatched, req_vars, stream_vars,
                    handler_calls, new_stream_handler, uuids, requested >>
    /\ raised' = ""

\* RPC.__aenter__: the channel connects and starts send_loop
\* (BufferingBaseChannel.__aenter__), then _recv_loop starts.
Start ==
    /\ recv_task = "none"
    /\ ~websocket
    /\ websocket' = TRUE
    /\ exit_stack' = << "_with_socket", "send_loop" >>
    /\ send_task' = "idle"
    /\ recv_task' = "running"
    /\ UNCHANGED << send_queue, sending, wire, accepted, recv_error >>
    /\ NoDispatch
    /\ NoCall
    /\ UNCHANGED << stop, conf_vars, peer_vars >>
    /\ UNCHANGED << dispatched, req_vars, stream_vars,
                    handler_calls, new_stream_handler, uuids, requested >>
    /\ raised' = ""

---------------------------------------------------------------------------
(* ResponseFuture and the callers of make_request. *)

Pending == [st |-> "pending", val |-> EmptyMap, err |-> NoErr]

\* asyncio.Future.set_result / set_exception raise InvalidStateError
FutureDone(f) == f.st # "pending"

SetResult(f, v) == [st |-> "result", val |-> v, err |-> NoErr]

SetException(f, e) == [st |-> "exception", val |-> EmptyMap, err |-> e]

\* the value None of a derived future
NoneValue == "<None>"

\* Session._no_response, Session._on_transcribe (TranscribeResponse.model_validate
\* wants kind == "transcribe" and a str text, and ignores other keys)
Apply(f, response) ==
    IF f = "_no_response"
    THEN [ok |-> TRUE, val |-> NoneValue, err |-> NoErr]
    ELSE IF /\ {"kind", "text"} \subseteq DOMAIN response
            /\ response["kind"] = "transcribe"
            /\ IsStr(response["text"])
         THEN [ok |-> TRUE, val |-> response["text"], err |-> NoErr]
         ELSE [ok |-> FALSE, val |-> "", err |-> Exc("ValidationError", "TranscribeResponse")]

\* the calls the model's callers make: Session.authenticate, Session.transcribe,
\* and RPC.make_request used directly (no transform)
Calls ==
    { [kind |-> "authenticate", f |-> "_no_response",
       fields |-> [kind |-> "authenticate", access_token |-> "tok123"]],
      [kind |-> "transcribe", f |-> "_on_transcribe",
       fields |-> [kind |-> "transcribe", language_code |-> "en"]],
      [kind |-> "ping", f |-> "", fields |-> None] }

NewDerived(f) ==
    [f |-> f, st |-> "pending", val |-> "", err |-> NoErr, ran |-> FALSE, calls |-> 0]

\* RPC.make_request(kind, fields), followed by .transform(f) when f is given
MakeRequest(c) ==
    LET uid == Uuid4(uuids + 1) IN
    /\ Cardinality(DOMAIN future_by_uid) < MaxRequests
    /\ uuids' = uuids + 1
    /\ future_by_uid' = Put(future_by_uid, uid, Pending)
    /\ requested' = Put(requested, uid, c.kind)
    /\ IF KindConflict(c.kind, c.fields)
       THEN /\ raised' = "ValueError"
            /\ UNCHANGED << chan_vars, derived >>
       ELSE IF SendRaises
       THEN /\ raised' = "RuntimeError"
            /\ UNCHANGED << chan_vars, derived >>
       ELSE /\ raised' = ""
            /\ ChannelSend(RequestMessage(uid, c.kind, c.fields))
            /\ derived' = IF c.f = "" THEN derived ELSE Put(derived, uid, NewDerived(c.f))
    /\ NoDispatch
    /\ Called("make_request", uid, c.kind, c.fields)
    /\ UNCHANGED << stop, conf_vars, peer_vars >>
    /\ UNCHANGED << loop_vars, dispatched, stream_vars,
                    handler_calls, new_stream_handler >>

\* a start() that makes no request
StartCallsNone == << >>

\* Session.start, after the RPC is entered: "if self.access_token:
\* self.authenticate()", the request authenticate() makes
StartCalls ==
    IF access_token # ""
    THEN << [kind |-> "authenticate", f |-> "_no_response",
             fields |-> [kind |-> "authenticate", access_token |-> access_token]] >>
    ELSE << >>

\* Session.start: RPC.__aenter__ (the channel connects and starts send_loop,
\* then the _recv_loop task is created), then authenticate().  Once the
\* socket is connected nothing in start() waits, so no other task, and
\* neither loop, runs before start() has made its request.
SessionStart ==
    LET uid == Uuid4(uuids + 1) IN
    /\ recv_task = "none"
    /\ ~websocket
    /\ websocket' = TRUE
    /\ exit_stack' = << "_with_socket", "send_loop" >>
    /\ send_task' = "idle"
    /\ recv_task' = "running"
    /\ IF StartCalls = << >>
       THEN /\ UNCHANGED << send_queue, accepted, req_vars, uuids, requested >>
            /\ NoCall
       ELSE LET c == StartCalls[1] IN
            /\ uuids' = uuids + 1
            /\ future_by_uid' = Put(future_by_uid, uid, Pending)
            /\ requested' = Put(requested, uid, c.kind)
            /\ send_queue' = QueuePut(send_queue, RequestMessage(uid, c.kind, c.fields))
            /\ accepted' = Append(accepted, RequestMessage(uid, c.kind, c.fields))
            /\ derived' = Put(derived, uid, NewDerived(c.f))
            /\ Called("make_request", uid, c.kind, c.fields)
    /\ UNCHANGED << sending, wire, recv_error >>
    /\ NoDispatch
    /\ UNCHANGED << stop, conf_vars, peer_vars >>
    /\ UNCHANGED << dispatched, stream_vars, handler_calls, new_stream_handler >>
    /\ raised' = ""

\* the responses a request handler's code sends
Responses ==
    { [uid |-> "x1", kind |-> "pong", fields |-> None],
      [uid |-> "x1", kind |-> "pong", fields |-> [kind |-> "ping"]] }

\* RPC.send_response(uid, kind, fields)
SendResponse(r) ==
    /\ Len(accepted) < MaxAccepted
    /\ IF KindConflict(r.kind, r.fields)
       THEN /\ raised' = "ValueError"
            /\ UNCHANGED chan_vars
       ELSE IF SendRaises
       THEN /\ raised' = "RuntimeError"
            /\ UNCHANGED chan_vars
       ELSE /\ raised' = ""
            /\ ChannelSend(ResponseMessage(r.uid, r.kind, r.fields))
    /\ NoDispatch
    /\ Called("send_response", r.uid, r.kind, r.fields)
    /\ UNCHANGED << stop, conf_vars, peer_vars >>
    /\ UNCHANGED << loop_vars, dispatched, req_vars, stream_vars,
                    handler_calls, new_stream_handler, uuids, requested >>

\* The task awaiting the handle make_request/transform returned for uid is
\* cancelled (a timeout): Task.cancel() cancels the future the task awaits.
CancelWait(uid) ==
    /\ uid \in DOMAIN future_by_uid
    /\ IF uid \in DOMAIN derived
       THEN /\ derived[uid].st = "pending"
            /\ derived' = [derived EXCEPT ![uid].st = "cancelled"]
            /\ UNCHANGED future_by_uid
       ELSE /\ future_by_uid[uid].st = "pending"
            /\ future_by_uid' = [future_by_uid EXCEPT ![uid].st = "cancelled"]
            /\ UNCHANGED derived
    /\ raised' = "CancelledError"
    /\ NoDispatch
    /\ NoCall
    /\ UNCHANGED << stop, conf_vars, peer_vars >>
    /\ UNCHANGED << chan_vars, loop_vars, dispatched, stream_vars,
                    handler_calls, new_stream_handler, uuids, requested >>

\* Resolver with the callback applied before the source's failure is looked at
ResolverCallsOnError(src, d) ==
    IF src.st \in {"exception", "result"} /\ d.st = "pending"
    THEN LET r == Apply(d.f, src.val) IN
         IF r.ok
         THEN [d EXCEPT !.st = "result", !.val = r.val, !.ran = TRUE, !.calls = @ + 1]
         ELSE [d EXCEPT !.st = "exception", !.err = r.err, !.ran = TRUE, !.calls = @ + 1]
    ELSE [d EXCEPT !.ran = TRUE]

\* Resolver that swallows a failure of the callback
ResolverSwallows(src, d) ==
    IF src.st = "exception" /\ d.st = "pending"
    THEN [d EXCEPT !.st = "exception", !.err = src.err, !.ran = TRUE]
    ELSE IF src.st = "result" /\ d.st = "pending"
    THEN [d EXCEPT !.st = "result", !.val = Apply(d.f, src.val).val, !.ran = TRUE,
                   !.calls = @ + 1]
    ELSE [d EXCEPT !.ran = TRUE]

\* ResponseFuture.transform.resolver, the done-callback of the source future.
\* set_result / set_exception on a derived future that is already cancelled
\* raise InvalidStateError out of the callback, and the future stays as it is.
Resolver(src, d) ==
    IF src.st = "exception"
    THEN IF d.st = "pending"
         THEN [d EXCEPT !.st = "exception", !.err = src.err, !.ran = TRUE]
         ELSE [d EXCEPT !.ran = TRUE]
    ELSE IF src.st = "result"
    THEN LET r == Apply(d.f, src.val) IN
         IF d.st # "pending"
         THEN [d EXCEPT !.ran = TRUE, !.calls = @ + 1]
         ELSE IF r.ok
         THEN [d EXCEPT !.st = "result", !.val = r.val, !.ran = TRUE, !.calls = @ + 1]
         ELSE [d EXCEPT !.st = "exception", !.err = r.err, !.ran = TRUE, !.calls = @ + 1]
    ELSE [d EXCEPT !.ran = TRUE]

RunResolver(uid) ==
    /\ uid \in DOMAIN derived
    /\ ~derived[uid].ran
    /\ FutureDone(future_by_uid[uid])
    /\ derived' = [derived EXCEPT ![uid] = Resolver(future_by_uid[uid], @)]
    /\ NoDispatch
    /\ NoCall
    /\ UNCHANGED << stop, conf_vars, peer_vars >>
    /\ UNCHANGED << chan_vars, loop_vars, dispatched, future_by_uid,
                    stream_vars, handler_calls, new_stream_handler, uuids, requested >>
    /\ raised' = ""

---------------------------------------------------------------------------
(* RPC.Stream. *)

\* a Stream handle and the task that uses it: uid and closed are the object's
\* fields; pc and q are where the task is in recv() ("idle", or "waiting" in
\* queue.get() of queue q); the rest is history: the frames recv() returned,
\* whether it returned None, the messages of the exceptions it raised, the
\* cancellations of a pending recv(), whether a recv() after a cancellation
\* has returned a frame, the send() calls made, the calls of close(), fail()
\* and close_silently() made, and the last of these that marked it closed
NewStream(uid) ==
    [uid |-> uid, closed |-> FALSE, pc |-> "idle", q |-> 0, got |-> << >>,
     ended |-> FALSE, failed |-> << >>, cancels |-> 0, retried |-> FALSE,
     sends |-> 0, closes |-> 0, by |-> ""]

\* _register_stream(uid): a new asyncio.Queue replaces whatever uid mapped to
RegisterStream(uid) ==
    /\ queues' = Append(queues, << >>)
    /\ arrived' = Append(arrived, << >>)
    /\ incoming_by_stream_uid' = Put(incoming_by_stream_uid, uid, Len(queues) + 1)

\* a deregistration that leaves the table as it is
DeregisterKeeps(table, uid) == table

\* _deregister_stream(uid): self._incoming_by_stream_uid.pop(uid)
DeregisterStream(table, uid) == Rest(table, {uid})

\* RPC.open_stream; the model's caller opens a stream once the streams it
\* holds are closed
OpenStream ==
    LET uid == Uuid4(uuids + 1) IN
    /\ Len(streams) < MaxStreams
    /\ \A h \in DOMAIN streams : streams[h].closed
    /\ uuids' = uuids + 1
    /\ RegisterStream(uid)
    /\ streams' = Append(streams, NewStream(uid))
    /\ raised' = ""
    /\ NoDispatch
    /\ NoCall
    /\ UNCHANGED << stop, conf_vars, peer_vars >>
    /\ UNCHANGED << chan_vars, loop_vars, dispatched, req_vars,
                    handler_calls, new_stream_handler, requested >>

\* the kinds and fields the model's callers send on a stream
StreamSends == { [kind |-> "interact", fields |-> [kind |-> "interact", text |-> "hi"]],
                 [kind |-> "add_audio", fields |-> None] }

\* a _validate_state that lets a closed stream through
ValidateStatePasses(s) == FALSE

\* Stream._validate_state raises RuntimeError("stream is already closed")
ValidateState(s) == s.closed

\* Stream.send(kind, fields)
StreamSend(h, c) ==
    LET s == streams[h] IN
    /\ s.sends < MaxSends
    /\ streams' = [streams EXCEPT ![h].sends = @ + 1]
    /\ IF ValidateState(s)
       THEN /\ raised' = "RuntimeError"
            /\ UNCHANGED chan_vars
       ELSE IF KindConflict(c.kind, c.fields)
       THEN /\ raised' = "ValueError"
            /\ UNCHANGED chan_vars
       ELSE IF SendRaises
       THEN /\ raised' = "RuntimeError"
            /\ UNCHANGED chan_vars
       ELSE /\ raised' = ""
            /\ ChannelSend(StreamMessage(s.uid, c.kind, c.fields))
    /\ NoDispatch
    /\ Called("send", s.uid, c.kind, c.fields)
    /\ UNCHANGED << stop, conf_vars, peer_vars >>
    /\ UNCHANGED << loop_vars, dispatched, req_vars,
                    incoming_by_stream_uid, queues, arrived,
                    handler_calls, new_stream_handler, uuids, requested >>

\* what close(), fail() and close_silently() do once their frame, if any, is
\* sent: self.closed = True, then _deregister_stream(uid), whose pop raises
\* KeyError when the uid is not in the table
MarkClosedAndDeregister(h, how) ==
    LET s == streams[h] IN
    /\ streams' = [streams EXCEPT ![h] =
                      [@ EXCEPT !.closed = TRUE, !.closes = @ + 1, !.by = how]]
    /\ IF s.uid \in DOMAIN incoming_by_stream_uid
       THEN /\ incoming_by_stream_uid' = DeregisterStream(incoming_by_stream_uid, s.uid)
            /\ raised' = ""
       ELSE /\ UNCHANGED incoming_by_stream_uid
            /\ raised' = "KeyError"

\* the call raised before self.closed = True
CloseRaises(h, exc) ==
    /\ streams' = [streams EXCEPT ![h].closes = @ + 1]
    /\ raised' = exc
    /\ UNCHANGED << chan_vars, incoming_by_stream_uid >>

\* the fields the model's callers give to close() and fail()
CloseFields == { None, [reason |-> "done"], [kind |-> "bye"] }

\* Stream.close(fields): no _validate_state
StreamClose(h, fields) ==
    LET s == streams[h] IN
    /\ s.closes < MaxCloses
    /\ IF KindConflict("close", fields)
       THEN CloseRaises(h, "ValueError")
       ELSE IF SendRaises
       THEN CloseRaises(h, "RuntimeError")
       ELSE /\ ChannelSend(StreamMessage(s.uid, "close", fields))
            /\ MarkClosedAndDeregister(h, "close")
    /\ NoDispatch
    /\ Called("close", s.uid, "close", fields)
    /\ UNCHANGED << stop, conf_vars, peer_vars >>
    /\ UNCHANGED << loop_vars, dispatched, req_vars, queues, arrived,
                    handler_calls, new_stream_handler, uuids, requested >>

\* the errors the model's callers give to fail(): None, or a message
FailErrors == { "", "bad audio" }

\* send_stream_error without the error
FailFieldsNoError(error, fields) == IF fields = None THEN EmptyMap ELSE fields

\* send_stream_error: (fields or {}) | ({"error": error} if error else {})
FailFields(error, fields) ==
    Merge(IF fields = None THEN EmptyMap ELSE fields,
          IF error # "" THEN [error |-> error] ELSE EmptyMap)

\* Stream.fail(error, fields): no _validate_state
StreamFail(h, error, fields) ==
    LET s == streams[h] IN
    /\ s.closes < MaxCloses
    /\ IF KindConflict("error", FailFields(error, fields))
       THEN CloseRaises(h, "ValueError")
       ELSE IF SendRaises
       THEN CloseRaises(h, "RuntimeError")
       ELSE /\ ChannelSend(StreamMessage(s.uid, "error", FailFields(error, fields)))
            /\ MarkClosedAndDeregister(h, "fail")
    /\ NoDispatch
    /\ CalledFail(s.uid, error, fields)
    /\ UNCHANGED << stop, conf_vars, peer_vars >>
    /\ UNCHANGED << loop_vars, dispatched, req_vars, queues, arrived,
                    handler_calls, new_stream_handler, uuids, requested >>

\* a close_silently that leaves the uid in the stream table
StreamCloseSilentlyKeeps(h) ==
    /\ streams[h].closes < MaxCloses
    /\ streams' = [streams EXCEPT ![h] =
                      [@ EXCEPT !.closed = TRUE, !.closes = @ + 1, !.by = "silent"]]
    /\ raised' = ""
    /\ NoDispatch
    /\ NoCall
    /\ UNCHANGED << stop, conf_vars, peer_vars >>
    /\ UNCHANGED << chan_vars, loop_vars, dispatched, req_vars,
                    incoming_by_stream_uid, queues, arrived,
                    handler_calls, new_stream_handler, uuids, requested >>

\* Stream.close_silently()
StreamCloseSilently(h) ==
    /\ streams[h].closes < MaxCloses
    /\ MarkClosedAndDeregister(h, "silent")
    /\ NoDispatch
    /\ NoCall
    /\ UNCHANGED << stop, conf_vars, peer_vars >>
    /\ UNCHANGED << chan_vars, loop_vars, dispatched, req_vars, queues, arrived,
                    handler_calls, new_stream_handler, uuids, requested >>

\* Stream.recv from "result = await queue.get()" on, for the queue q the call
\* looked up: the head of q is taken and matched.
RecvTake(h, q) ==
    LET s      == streams[h]
        result == QueueHead(queues[q])
        known  == s.uid \in DOMAIN incoming_by_stream_uid
        isErr  == result["kind"] = "error"
        isEnd  == result["kind"] = "close"
        msg    == IF "error" \in DOMAIN result /\ IsStr(result["error"])
                  THEN result["error"]
                  ELSE "Stream closed with unspecified error"
    IN
    /\ queues' = [queues EXCEPT ![q] = QueueRest(@)]
    /\ IF isErr \/ isEnd
       THEN IF known
            THEN /\ incoming_by_stream_uid' = DeregisterStream(incoming_by_stream_uid, s.uid)
                 /\ streams' = [streams EXCEPT ![h] =
                        [@ EXCEPT !.pc = "idle", !.q = 0, !.closed = TRUE,
                                  !.ended = isEnd,
                                  !.failed = IF isErr THEN Append(@, msg) ELSE @]]
                 /\ raised' = IF isErr THEN "Exception" ELSE ""
            ELSE \* pop(uid) raises KeyError before self.closed is set
                 /\ UNCHANGED incoming_by_stream_uid
                 /\ streams' = [streams EXCEPT ![h] = [@ EXCEPT !.pc = "idle", !.q = 0]]
                 /\ raised' = "KeyError"
       ELSE /\ UNCHANGED incoming_by_stream_uid
            /\ streams' = [streams EXCEPT ![h] =
                   [@ EXCEPT !.pc = "idle", !.q = 0, !.got = Append(@, result),
                             !.retried = (s.cancels > 0)]]
            /\ raised' = ""
    /\ UNCHANGED arrived

\* Stream.recv() is called: _validate_state, the table lookup, then
\* queue.get(), which returns at once when the queue holds a frame and
\* suspends the caller otherwise.
StreamRecv(h) ==
    LET s == streams[h] IN
    /\ s.pc = "idle"
    /\ IF s.closed \/ s.uid \notin DOMAIN incoming_by_stream_uid
       THEN /\ raised' = "RuntimeError"
            /\ UNCHANGED stream_vars
       ELSE LET q == incoming_by_stream_uid[s.uid] IN
            IF queues[q] # << >>
            THEN RecvTake(h, q)
            ELSE /\ streams' = [streams EXCEPT ![h] = [@ EXCEPT !.pc = "waiting", !.q = q]]
                 /\ raised' = ""
                 /\ UNCHANGED << incoming_by_stream_uid, queues, arrived >>
    /\ NoDispatch
    /\ NoCall
    /\ UNCHANGED << stop, conf_vars, peer_vars >>
    /\ UNCHANGED << chan_vars, loop_vars, dispatched, req_vars,
                    handler_calls, new_stream_handler, uuids, requested >>

\* the suspended recv() is resumed once put_nowait has woken its getter
StreamRecvResume(h) ==
    LET s == streams[h] IN
    /\ s.pc = "waiting"
    /\ queues[s.q] # << >>
    /\ RecvTake(h, s.q)
    /\ NoDispatch
    /\ NoCall
    /\ UNCHANGED << stop, conf_vars, peer_vars >>
    /\ UNCHANGED << chan_vars, loop_vars, dispatched, req_vars,
                    handler_calls, new_stream_handler, uuids, requested >>

\* a cancelled get that loses the frame that had woken it
QueueCancelLoses(q) == IF q = << >> THEN q ELSE Tail(q)

\* the task suspended in recv() is cancelled: queue.get() raises
\* CancelledError and leaves the queue as it is, whether or not put_nowait
\* had already woken the getter
QueueAfterCancel(q) == q

\* the cancellations so far, over all handles
RECURSIVE Cancels(_)
Cancels(ss) == IF ss = << >> THEN 0 ELSE Head(ss).cancels + Cancels(Tail(ss))

StreamRecvCancel(h) ==
    LET s == streams[h] IN
    /\ s.pc = "waiting"
    /\ Cancels(streams) < MaxCancels
    /\ streams' = [streams EXCEPT ![h] = [@ EXCEPT !.pc = "idle", !.q = 0, !.cancels = @ + 1]]
    /\ queues' = [queues EXCEPT ![s.q] = QueueAfterCancel(@)]
    /\ raised' = "CancelledError"
    /\ UNCHANGED << incoming_by_stream_uid, arrived >>
    /\ NoDispatch
    /\ NoCall
    /\ UNCHANGED << stop, conf_vars, peer_vars >>
    /\ UNCHANGED << chan_vars, loop_vars, dispatched, req_vars,
                    handler_calls, new_stream_handler, uuids, requested >>

---------------------------------------------------------------------------
(* RPC: the receive loop and the dispatch of one inbound frame. *)

\* an exception leaves _on_message: _recv_loop logs it and exits
LoopDies(exc) ==
    /\ recv_task' = "exited"
    /\ recv_error' = exc

LoopGoesOn == UNCHANGED loop_vars

\* the loop awaits a handler that has suspended: _on_message has not returned
LoopAwaitsHandler ==
    /\ recv_task' = "handling"
    /\ UNCHANGED recv_error

\* fail that sends the error and leaves the channel open
FailWithoutClose(error) ==
    /\ route' = "fail"
    /\ ChannelSend(ToplevelErrorMessage(error))
    /\ LoopGoesOn
    /\ UNCHANGED << req_vars, stream_vars, handler_calls >>

\* RPC.fail(error), called by the receive loop: send_toplevel_error, then
\* await self.channel.close()
Fail(error) ==
    /\ route' = "fail"
    /\ IF SendRaises
       THEN /\ LoopDies("RuntimeError")
            /\ UNCHANGED chan_vars
       ELSE /\ \E written \in BOOLEAN :
                   ChannelCloseBegin(<< ToplevelErrorMessage(error) >>, written)
            /\ recv_task' = "closing"
            /\ UNCHANGED recv_error
    /\ UNCHANGED << req_vars, stream_vars, handler_calls >>

\* an on_request that logs the request and answers nothing
OnRequestDrops(uid, kind, fields) ==
    /\ route' = "error_response"
    /\ LoopGoesOn
    /\ UNCHANGED << chan_vars, req_vars, stream_vars, handler_calls >>

\* RPC.on_request with no request handler (Session registers none)
OnRequest(uid, kind, fields) ==
    IF request_handler # "none"
    THEN /\ route' = "request_handler"
         /\ handler_calls' = Append(handler_calls, << uid, kind >>)
         /\ LoopAwaitsHandler
         /\ UNCHANGED << chan_vars, req_vars, stream_vars >>
    ELSE /\ route' = "error_response"
         /\ IF SendRaises
            THEN /\ LoopDies("RuntimeError")
                 /\ UNCHANGED chan_vars
            ELSE /\ ChannelSend(ErrorResponseMessage(uid, "Incoming requests are not supported"))
                 /\ LoopGoesOn
         /\ UNCHANGED << req_vars, stream_vars, handler_calls >>

\* the exception of an error response
ResponseError(error) ==
    IF error = "session is not authenticated"
    THEN Exc("PermissionError", error)
    ELSE Exc("Exception", error)

\* the result without its kind
ResponseResultFieldsOnly(kind, fields) == fields

\* dict(kind=kind, **fields)
ResponseResult(kind, fields) == Merge([kind |-> kind], fields)

\* an on_response that takes an error response without a string error for
\* a result
OnResponseLenient(uid, kind, fields) ==
    LET isError == kind = "error" /\ "error" \in DOMAIN fields /\ IsStr(fields["error"]) IN
    /\ route' = "future"
    /\ IF uid \notin DOMAIN future_by_uid
       THEN /\ LoopDies("KeyError")
            /\ UNCHANGED future_by_uid
       ELSE IF FutureDone(future_by_uid[uid])
       THEN /\ LoopDies("InvalidStateError")
            /\ UNCHANGED future_by_uid
       ELSE /\ LoopGoesOn
            /\ future_by_uid' = [future_by_uid EXCEPT ![uid] =
                   IF isError
                   THEN SetException(@, ResponseError(fields["error"]))
                   ELSE SetResult(@, ResponseResult(kind, fields))]
    /\ UNCHANGED << chan_vars, derived, stream_vars, handler_calls >>

\* an on_response whose error response fails every pending request
OnResponseFailsAll(uid, kind, fields) ==
    LET isError == kind = "error" /\ "error" \in DOMAIN fields /\ IsStr(fields["error"]) IN
    /\ route' = "future"
    /\ IF uid \notin DOMAIN future_by_uid
       THEN /\ LoopDies("KeyError")
            /\ UNCHANGED future_by_uid
       ELSE IF FutureDone(future_by_uid[uid])
       THEN /\ LoopDies("InvalidStateError")
            /\ UNCHANGED future_by_uid
       ELSE /\ LoopGoesOn
            /\ future_by_uid' =
                  [u \in DOMAIN future_by_uid |->
                     IF isError /\ future_by_uid[u].st = "pending"
                     THEN SetException(future_by_uid[u], ResponseError(fields["error"]))
                     ELSE IF u = uid
                     THEN SetResult(future_by_uid[u], ResponseResult(kind, fields))
                     ELSE future_by_uid[u]]
    /\ UNCHANGED << chan_vars, derived, stream_vars, handler_calls >>

\* RPC.on_response
OnResponse(uid, kind, fields) ==
    LET isError == kind = "error" /\ "error" \in DOMAIN fields /\ IsStr(fields["error"]) IN
    IF isError \/ kind # "error"
    THEN /\ route' = "future"
         /\ IF uid \notin DOMAIN future_by_uid
            THEN /\ LoopDies("KeyError")
                 /\ UNCHANGED future_by_uid
            ELSE IF FutureDone(future_by_uid[uid])
            THEN /\ LoopDies("InvalidStateError")
                 /\ UNCHANGED future_by_uid
            ELSE /\ LoopGoesOn
                 /\ future_by_uid' = [future_by_uid EXCEPT ![uid] =
                        IF isError
                        THEN SetException(@, ResponseError(fields["error"]))
                        ELSE SetResult(@, ResponseResult(kind, fields))]
         /\ UNCHANGED << chan_vars, derived, stream_vars, handler_calls >>
    ELSE Fail(Format("Unexpected response message ", << kind, fields >>))

\* an accept_stream that makes the Stream and does not register its uid
AcceptStreamUnregistered(uid) ==
    /\ streams' = Append(streams, NewStream(uid))
    /\ UNCHANGED << incoming_by_stream_uid, queues, arrived >>

\* RPC.accept_stream(uid), called by the new-stream handler
AcceptStream(uid) ==
    /\ RegisterStream(uid)
    /\ streams' = Append(streams, NewStream(uid))

\* RPC.on_new_stream: the handler is given the frame (and accepts the stream
\* if it is one that does), or without a handler the peer is sent a stream
\* error
OnNewStream(uid, kind, fields) ==
    IF new_stream_handler # "none"
    THEN /\ route' = "new_stream_handler"
         /\ handler_calls' = Append(handler_calls, << uid, kind >>)
         /\ IF new_stream_handler = "accept" /\ Len(streams) < MaxHandles
            THEN AcceptStream(uid)
            ELSE UNCHANGED stream_vars
         /\ IF new_stream_handler = "slow" THEN LoopAwaitsHandler ELSE LoopGoesOn
         /\ UNCHANGED << chan_vars, req_vars >>
    ELSE /\ route' = "stream_error"
         /\ IF SendRaises
            THEN /\ LoopDies("RuntimeError")
                 /\ UNCHANGED chan_vars
            ELSE /\ ChannelSend(StreamErrorMessage(uid, "Incoming streams are not supported"))
                 /\ LoopGoesOn
         /\ UNCHANGED << req_vars, stream_vars, handler_calls >>

\* RPC.on_stream_message
OnStreamMessage(uid, kind, fields) ==
    IF uid \in DOMAIN incoming_by_stream_uid
    THEN LET q == incoming_by_stream_uid[uid]
             m == ResponseResult(kind, fields)
         IN /\ route' = "queue"
            /\ queues' = [queues EXCEPT ![q] = QueuePut(@, m)]
            /\ arrived' = [arrived EXCEPT ![q] = Append(@, m)]
            /\ LoopGoesOn
            /\ UNCHANGED << chan_vars, req_vars, incoming_by_stream_uid, streams,
                            handler_calls >>
    ELSE OnNewStream(uid, kind, fields)

\* an on_error that logs the error and leaves the channel open
OnErrorIgnored(error) ==
    /\ route' = "close"
    /\ LoopGoesOn
    /\ UNCHANGED << chan_vars, req_vars, stream_vars, handler_calls >>

\* RPC.on_error: the channel is closed
OnError(error) ==
    /\ route' = "close"
    /\ \E written \in BOOLEAN : ChannelCloseBegin(<< >>, written)
    /\ recv_task' = "closing"
    /\ UNCHANGED << recv_error, req_vars, stream_vars, handler_calls >>

\* RPC.on_debug
OnDebug(message) ==
    /\ route' = "debug"
    /\ LoopGoesOn
    /\ UNCHANGED << chan_vars, req_vars, stream_vars, handler_calls >>

\* the match statement of RPC._on_message
Shape(m) ==
    LET type == IF "type" \in DOMAIN m THEN m["type"] ELSE ""
        addressed == /\ {"uid", "kind"} \subseteq DOMAIN m
                     /\ IsStr(m["uid"])
                     /\ IsStr(m["kind"])
    IN IF type \in {"request", "response", "stream"} /\ addressed THEN type
       ELSE IF type = "error" /\ "error" \in DOMAIN m /\ IsStr(m["error"]) THEN "error"
       ELSE IF type = "debug" /\ "message" \in DOMAIN m /\ IsStr(m["message"]) THEN "debug"
       ELSE "unexpected"

OnMessage(m) ==
    LET fields == Rest(m, {"type", "uid", "kind"}) IN
    CASE Shape(m) = "request"  -> OnRequest(m["uid"], m["kind"], fields)
      [] Shape(m) = "response" -> OnResponse(m["uid"], m["kind"], fields)
      [] Shape(m) = "stream"   -> OnStreamMessage(m["uid"], m["kind"], fields)
      [] Shape(m) = "error"    -> OnError(m["error"])
      [] Shape(m) = "debug"    -> OnDebug(m["message"])
      [] OTHER                 -> Fail(Format("Unexpected message format: ", m))

\* one turn of "async for message in self.channel: await self._on_message(message)"
\* a receive loop that takes the next frame while a handler is suspended
RecvLoopReadyDuringHandler == recv_task \in {"running", "handling"}

\* _recv_loop is at "async for message in self.channel": the _on_message of
\* the frame before has returned
RecvLoopReady == recv_task = "running"

\* the handler awaited by _on_message returns: the loop goes on to recv()
HandlerReturn ==
    /\ recv_task = "handling"
    /\ recv_task' = "running"
    /\ UNCHANGED recv_error
    /\ NoDispatch
    /\ NoCall
    /\ raised' = ""
    /\ UNCHANGED << stop, conf_vars, peer_vars >>
    /\ UNCHANGED << chan_vars, dispatched, req_vars, stream_vars,
                    handler_calls, new_stream_handler, uuids, requested >>

\* the handler awaited by _on_message raises: _recv_loop logs it and exits
HandlerRaises ==
    /\ recv_task = "handling"
    /\ LoopDies("HandlerError")
    /\ NoDispatch
    /\ NoCall
    /\ raised' = ""
    /\ UNCHANGED << stop, conf_vars, peer_vars >>
    /\ UNCHANGED << chan_vars, dispatched, req_vars, stream_vars,
                    handler_calls, new_stream_handler, uuids, requested >>

\* the peer closes the connection cleanly: websocket.recv() raises
\* ConnectionClosedOK, Channel.recv returns None, the iteration over the
\* channel ends and _recv_loop returns.  Nobody closes the channel here.
RecvLoopPeerClosed ==
    /\ RecvLoopReady
    /\ websocket
    /\ recv_task' = "exited"
    /\ UNCHANGED recv_error
    /\ NoDispatch
    /\ NoCall
    /\ raised' = ""
    /\ UNCHANGED << stop, conf_vars, peer_vars >>
    /\ UNCHANGED << chan_vars, dispatched, req_vars, stream_vars,
                    handler_calls, new_stream_handler, uuids, requested >>

RecvLoopStep(m, limit) ==
    /\ RecvLoopReady
    /\ websocket
    /\ dispatched < limit
    /\ dispatched' = dispatched + 1
    /\ last_frame' = << m >>
    /\ OnMessage(m)
    /\ raised' = ""
    /\ NoCall
    /\ UNCHANGED << new_stream_handler, uuids, requested, stop, conf_vars, peer_vars >>

---------------------------------------------------------------------------
(* RPC.__aexit__: the exit stack unwinds in reverse order of entry. *)

\* the ways the body of "async with rpc" ends; __aexit__ ignores which
ExitPaths == {"return", "exception", "cancelled"}

\* a scoped_background_task that skips task.cancel() and await task
CancelRecvLoopSkipped == recv_task

\* scoped_background_task(_recv_loop), finally: task.cancel(); await task.
\* A loop waiting in channel.recv() returns on CancelledError; a loop waiting
\* in channel.close() (fail, on_error) ends too; a task that is over stays so.
CancelRecvLoop == "exited"

\* the exception "await task" raises in scoped_background_task for the
\* _recv_loop task: none.  The loop returns on CancelledError, and on any
\* other exception it logs and falls out of the try statement, so the task
\* always ends by returning.
RecvTaskException == ""

\* first entry popped from the RPC's exit stack: the receive loop
StopCancelRecvLoop(why) ==
    /\ stop.pc = "none"
    /\ recv_task # "none"
    /\ stop' = [pc |-> "recv_cancelled", why |-> why]
    /\ recv_task' = CancelRecvLoop
    /\ IF recv_task = "closing"
       THEN \* the channel's own exit stack goes on unwinding while the
            \* cancellation lands: self.websocket = None.  The cancellation
            \* ends the loop, or is consumed by the wait for send_loop and
            \* the loop's next recv() raises "not connected".
            /\ websocket' = FALSE
            /\ exit_stack' = << >>
            /\ \E e \in IF send_task = "failed"
                         THEN {recv_error}
                         ELSE {recv_error, "RuntimeError"} : recv_error' = e
       ELSE UNCHANGED << websocket, exit_stack, recv_error >>
    /\ UNCHANGED << send_queue, send_task, sending, wire, accepted >>
    /\ UNCHANGED << conf_vars, peer_vars >>
    /\ NoDispatch
    /\ NoCall
    /\ UNCHANGED << dispatched, req_vars, stream_vars,
                    handler_calls, new_stream_handler, uuids, requested >>
    /\ raised' = RecvTaskException

\* second entry popped: Channel.__aexit__ calls close(), whose exit stack
\* first leaves scoped_background_task(send_loop)
StopCancelSendLoop ==
    /\ stop.pc = "recv_cancelled"
    /\ stop' = [stop EXCEPT !.pc = "send_cancelled"]
    /\ \E written \in BOOLEAN : ChannelCloseBegin(<< >>, written)
    /\ UNCHANGED loop_vars
    /\ UNCHANGED << conf_vars, peer_vars >>
    /\ NoDispatch
    /\ NoCall
    /\ UNCHANGED << dispatched, req_vars, stream_vars,
                    handler_calls, new_stream_handler, uuids, requested >>
    /\ raised' = ""

\* a close() that raises when the channel is already closed
StopReleaseStrict ==
    /\ stop.pc = "send_cancelled"
    /\ stop' = [stop EXCEPT !.pc = "stopped"]
    /\ websocket' = FALSE
    /\ exit_stack' = << >>
    /\ raised' = IF exit_stack # << >> THEN SendLoopError ELSE "RuntimeError"
    /\ UNCHANGED << send_queue, send_task, sending, wire, accepted >>
    /\ UNCHANGED loop_vars
    /\ UNCHANGED << conf_vars, peer_vars >>
    /\ NoDispatch
    /\ NoCall
    /\ UNCHANGED << dispatched, req_vars, stream_vars,
                    handler_calls, new_stream_handler, uuids, requested >>

\* close() then leaves _with_socket (self.websocket = None), if its exit
\* stack still held it, and raises what the send loop it has just awaited had
\* failed with; __aexit__ returns, or raises that exception
StopRelease ==
    /\ stop.pc = "send_cancelled"
    /\ stop' = [stop EXCEPT !.pc = "stopped"]
    /\ websocket' = FALSE
    /\ exit_stack' = << >>
    /\ raised' = IF exit_stack # << >> THEN SendLoopError ELSE ""
    /\ UNCHANGED << send_queue, send_task, sending, wire, accepted >>
    /\ UNCHANGED loop_vars
    /\ UNCHANGED << conf_vars, peer_vars >>
    /\ NoDispatch
    /\ NoCall
    /\ UNCHANGED << dispatched, req_vars, stream_vars,
                    handler_calls, new_stream_handler, uuids, requested >>

---------------------------------------------------------------------------
(* The peer. *)

\* the kind and payload of the responses the peer sends to a request of
\* the given kind (send_response on its side of the symmetric protocol): a
\* response of that kind, or an error response
ResponseBodies(kind) ==
    CASE kind = "authenticate" ->
            { [kind |-> kind, fields |-> EmptyMap],
              [kind |-> "error", fields |-> [error |-> "boom"]] }
      [] kind = "transcribe" ->
            { [kind |-> kind, fields |-> [text |-> "hello"]],
              [kind |-> kind, fields |-> [language_code |-> "en"]],
              [kind |-> "error", fields |-> [error |-> "session is not authenticated"]] }
      [] OTHER ->
            { [kind |-> kind, fields |-> [error |-> "boom"]],
              [kind |-> "error", fields |-> [error |-> "boom"]] }

\* the responses to the requests made, and one to a request nobody made
ResponseFrames ==
    UNION { { ResponseMessage(uid, b.kind, b.fields) : b \in ResponseBodies(requested[uid]) } :
            uid \in DOMAIN requested }
    \cup { ResponseMessage("x1", "ping", EmptyMap) }

\* frames of none of the five shapes: a request without uid, a response
\* whose uid is not a string
MalformedFrames ==
    { [type |-> "request", kind |-> "ping"],
      [type |-> "response", uid |-> "<int>", kind |-> "ping"] }

SessionErrorFrames == { ToplevelErrorMessage("server shutting down") }

\* responses of kind "error" that carry no error, or one that is not a
\* string, to the requests made and to one nobody made
BadErrorResponses ==
    { Merge([type |-> "response", uid |-> uid, kind |-> "error"], payload) :
        uid \in DOMAIN requested \cup {"x1"},
        payload \in { EmptyMap, [error |-> "<int>"], [message |-> "boom"] } }

\* the peer's data frames, numbered by the place they take among the frames
\* it sends, so that no two data frames of a behaviour are alike
DataBodies ==
    << [kind |-> "a", fields |-> EmptyMap],
       [kind |-> "b", fields |-> [text |-> "hi"]],
       [kind |-> "c", fields |-> EmptyMap],
       [kind |-> "d", fields |-> EmptyMap],
       [kind |-> "e", fields |-> EmptyMap],
       [kind |-> "f", fields |-> EmptyMap] >>

\* the frames that end a stream: close, an error with its message, an error
\* without one
EndBodies ==
    { [kind |-> "close", fields |-> EmptyMap],
      [kind |-> "error", fields |-> [error |-> "boom"]],
      [kind |-> "error", fields |-> EmptyMap] }

StreamBodies == { DataBodies[dispatched + 1] } \cup EndBodies

\* the frames the peer sends on the uids of the streams opened here, whether
\* the stream is still registered or not
StreamFrames ==
    { StreamMessage(Uuid4(n), b.kind, b.fields) : n \in 1..uuids, b \in StreamBodies }

---------------------------------------------------------------------------
(* Specifications. *)

\* the state after Session(access_token, channel, logger), or after
\* RPC(name, channel, logger, request_handler=..., new_stream_handler=...)
InitOf(handlers, request_handlers, tokens) ==
    /\ websocket = FALSE
    /\ exit_stack = << >>
    /\ request_handler \in request_handlers
    /\ access_token \in tokens
    /\ peer_dispatched = 0
    /\ peer_wire = << >>
    /\ send_queue = << >>
    /\ send_task = "none"
    /\ sending = << >>
    /\ wire = << >>
    /\ accepted = << >>
    /\ recv_task = "none"
    /\ recv_error = ""
    /\ dispatched = 0
    /\ last_frame = << >>
    /\ route = ""
    /\ future_by_uid = EmptyMap
    /\ derived = EmptyMap
    /\ incoming_by_stream_uid = EmptyMap
    /\ queues = << >>
    /\ arrived = << >>
    /\ streams = << >>
    /\ handler_calls = << >>
    /\ new_stream_handler \in handlers
    /\ uuids = 0
    /\ requested = EmptyMap
    /\ last_call = << >>
    /\ stop = [pc |-> "none", why |-> ""]
    /\ raised = ""

\* an RPC without a request handler, used without a Session's access token
InitWith(handlers) == InitOf(handlers, {"none"}, {""})

\* Session builds its RPC without handlers
Init == InitWith({"none"})

\* requests and responses
Next ==
    \/ Start
    \/ \E c \in Calls : MakeRequest(c)
    \/ \E uid \in DOMAIN future_by_uid : CancelWait(uid)
    \/ \E uid \in DOMAIN derived : RunResolver(uid)
    \/ \E m \in ResponseFrames \cup MalformedFrames \cup SessionErrorFrames :
          RecvLoopStep(m, MaxInbound)
    \/ ChannelCloseFinish

Spec == Init /\ [][Next]_vars

\* the channel: requests and stream frames sent by callers, the send loop,
\* and the receive loop that fails on a malformed frame (its error frame is
\* sent, then the channel is closed)
NextChan ==
    \/ Start
    \/ \E c \in { x \in Calls : x.f = "" } : MakeRequest(c)
    \/ OpenStream
    \/ \E h \in DOMAIN streams : \E c \in StreamSends : StreamSend(h, c)
    \/ \E m \in MalformedFrames : RecvLoopStep(m, MaxInbound)
    \/ SendLoopGet
    \/ SendLoopWrite
    \/ ChannelCloseFinish

SpecChan == Init /\ [][NextChan]_vars

\* an RPC without a new-stream handler, and one whose handler only logs
InitStream == InitWith({"none", "log"})

\* streams: frames arriving on the uids of the streams opened here, and the
\* task that calls recv() on each Stream
NextStream ==
    \/ Start
    \/ OpenStream
    \/ \E h \in DOMAIN streams : StreamRecv(h)
    \/ \E h \in DOMAIN streams : StreamRecvResume(h)
    \/ \E m \in StreamFrames : RecvLoopStep(m, MaxStreamIn)

SpecStream == InitStream /\ [][NextStream]_vars

\* streams whose task is cancelled while it waits in recv(), and calls
\* recv() again
NextCancel ==
    \/ Start
    \/ OpenStream
    \/ \E h \in DOMAIN streams : StreamRecv(h)
    \/ \E h \in DOMAIN streams : StreamRecvResume(h)
    \/ \E h \in DOMAIN streams : StreamRecvCancel(h)
    \/ \E m \in StreamFrames : RecvLoopStep(m, MaxCancelIn)

SpecCancel == Init /\ [][NextCancel]_vars

---------------------------------------------------------------------------
(* Properties of requests and responses (checked under Spec). *)

\* the step just taken dispatched an inbound frame
Dispatching == last_frame' # << >>

\* the frame it dispatched
Frame == last_frame'[1]

\* a response frame with a string uid, and with a string error when its kind
\* is "error"
WellFormedResponse(m) ==
    /\ m["type"] = "response"
    /\ "uid" \in DOMAIN m /\ IsStr(m["uid"])
    /\ "kind" \in DOMAIN m
    /\ m["kind"] = "error" => ("error" \in DOMAIN m /\ IsStr(m["error"]))

\* C1: when the response frame {type: response, uid, kind: K, ...P} with K
\* other than "error" is dispatched for a pending request uid, the request's
\* future resolves to exactly {kind: K, ...P}: the frame without its type and
\* uid keys, nothing else added or lost.
C1_ResponseResolvesExactly ==
    [][( /\ Dispatching
         /\ WellFormedResponse(Frame)
         /\ Frame["kind"] # "error"
         /\ Frame["uid"] \in DOMAIN future_by_uid
         /\ future_by_uid[Frame["uid"]].st = "pending" )
       => /\ future_by_uid'[Frame["uid"]].st = "result"
          /\ future_by_uid'[Frame["uid"]].val =
                [k \in DOMAIN Frame \ {"type", "uid"} |-> Frame[k]]
          /\ DOMAIN future_by_uid'[Frame["uid"]].val \cap {"type", "uid"} = {}
    ]_vars

\* a request was answered with a payload that has an "error" key under a
\* kind that is not "error", and its future holds kind and payload
C1_Witness ==
    \E uid \in DOMAIN future_by_uid :
        /\ last_frame = << ResponseMessage(uid, "ping", [error |-> "boom"]) >>
        /\ future_by_uid[uid].st = "result"
        /\ future_by_uid[uid].val = [kind |-> "ping", error |-> "boom"]

\* C4 (as claimed): a well-formed response frame for a uid that is not in the
\* request table, or for a uid whose future is already resolved, leaves the
\* receive loop running.
C4_StrayResponseKeepsLoopRunning ==
    [][( /\ Dispatching
         /\ WellFormedResponse(Frame)
         /\ \/ Frame["uid"] \notin DOMAIN future_by_uid
            \/ future_by_uid[Frame["uid"]].st \in {"result", "exception"} )
       => recv_task' = "running"
    ]_vars

\* C5 (as claimed): a well-formed response frame for a request whose awaiting
\* task was cancelled leaves the receive loop running.
C5_CancelledWaitKeepsLoopRunning ==
    [][( /\ Dispatching
         /\ WellFormedResponse(Frame)
         /\ Frame["uid"] \in DOMAIN future_by_uid
         /\ future_by_uid[Frame["uid"]].st = "cancelled" )
       => recv_task' = "running"
    ]_vars

\* the top-level error frame that reports the malformed frame m
FailureFrame(m) == ToplevelErrorMessage(Format("Unexpected message format: ", m))

\* C8: a malformed frame makes the receive loop send a top-level error frame
\* and start closing the channel (the send loop is cancelled); from then on
\* no further inbound frame is dispatched, and the loop ends only with the
\* connection gone.
C8_MalformedFrameFails ==
    [][ /\ (Dispatching /\ Frame \in MalformedFrames) =>
                /\ accepted' = Append(accepted, FailureFrame(Frame))
                /\ send_task' = "done"
                /\ recv_task' = "closing"
        /\ recv_task \in {"closing", "exited"} =>
                /\ dispatched' = dispatched
                /\ recv_task' \in {"closing", "exited"}
        /\ (recv_task = "closing" /\ recv_task' = "exited") => ~websocket'
    ]_vars

\* fail has run to its end after a malformed frame, with inbound frames left
C8_Witness ==
    /\ recv_task = "exited"
    /\ ~websocket
    /\ send_task = "done"
    /\ accepted # << >>
    /\ \E m \in MalformedFrames : accepted[Len(accepted)] = FailureFrame(m)
    /\ dispatched < MaxInbound

\* C9: when the source future of transform(f) has failed, f is never called
\* and the derived future, once its resolver has run (and unless its own
\* awaiter cancelled it), has failed with the very same error.
C9_SourceFailurePropagates ==
    \A uid \in DOMAIN derived :
        LET src == future_by_uid[uid]
            d   == derived[uid]
        IN src.st = "exception" =>
              /\ d.calls = 0
              /\ d.st # "result"
              /\ d.st = "exception" => d.err = src.err
              /\ (d.ran /\ d.st # "cancelled") => d.st = "exception"

C9_Witness ==
    \E uid \in DOMAIN derived :
        /\ future_by_uid[uid].st = "exception"
        /\ future_by_uid[uid].err = Exc("PermissionError", "session is not authenticated")
        /\ derived[uid].ran
        /\ derived[uid].st = "exception"
        /\ derived[uid].err = future_by_uid[uid].err

\* C10: once the source future of transform(f) holds a result and the
\* resolver has run (and unless the derived future's own awaiter cancelled
\* it), the derived future holds f(result), or the failure of f:
\* _no_response gives None (so authenticate() resolves to None on
\* {kind: authenticate}), _on_transcribe gives the text, and fails when the
\* response has none.
C10_TransformResolves ==
    \A uid \in DOMAIN derived :
        LET src == future_by_uid[uid]
            d   == derived[uid]
        IN (src.st = "result" /\ d.ran /\ d.st # "cancelled") =>
              /\ d.calls = 1
              /\ d.f = "_no_response" => (d.st = "result" /\ d.val = NoneValue)
              /\ (d.f = "_on_transcribe" /\ "text" \in DOMAIN src.val) =>
                     (d.st = "result" /\ d.val = src.val["text"])
              /\ (d.f = "_on_transcribe" /\ "text" \notin DOMAIN src.val) =>
                     (d.st = "exception" /\ d.err.type = "ValidationError")

\* the end-to-end scenario: authenticate with token tok123 was sent, the
\* response {kind: authenticate} resolved its future, authenticate() gave None
C10_Witness ==
    \E uid \in DOMAIN derived :
        /\ accepted # << >>
        /\ accepted[1] = [type |-> "request", uid |-> uid, kind |-> "authenticate",
                          access_token |-> "tok123"]
        /\ future_by_uid[uid] = SetResult(Pending, [kind |-> "authenticate"])
        /\ derived[uid].st = "result"
        /\ derived[uid].val = NoneValue

---------------------------------------------------------------------------
(* Properties of the channel (checked under SpecChan). *)

IsPrefix(a, b) == Len(a) <= Len(b) /\ a = SubSeq(b, 1, Len(a))

\* the place of uid among the values uuid4 has given
UidIndex(uid) == CHOOSE n \in 1..uuids : Uuid4(n) = uid

IsRequestFrame(m) == m["type"] = "request"

IsStreamFrameOf(m, uid) == m["type"] = "stream" /\ m["uid"] = uid

\* the stream frames of uid among the frames of a sequence, in their order
StreamFramesOf(frames, uid) == SelectSeq(frames, LAMBDA m : IsStreamFrameOf(m, uid))

\* C2: outbound frames reach the connection in the order their send calls
\* were accepted: what is written is always a prefix of what was accepted,
\* and while the send loop lives, written, in-flight and queued frames are
\* together exactly the accepted ones, in order.  So the requests of make_request
\* calls leave in call order, and the stream frames of one uid leave in the
\* order of the send calls.
C2_OutboundFifo ==
    /\ IsPrefix(wire, accepted)
    /\ send_task \in {"idle", "writing"} => wire \o sending \o send_queue = accepted
    /\ \A i, j \in DOMAIN wire :
          (i < j /\ IsRequestFrame(wire[i]) /\ IsRequestFrame(wire[j]))
          => UidIndex(wire[i]["uid"]) < UidIndex(wire[j]["uid"])
    /\ \A h \in DOMAIN streams :
          IsPrefix(StreamFramesOf(wire, streams[h].uid),
                   StreamFramesOf(accepted, streams[h].uid))

\* two requests made back-to-back and two different frames of one stream
\* have been written
C2_Witness ==
    /\ \E i \in DOMAIN wire :
          /\ i + 1 \in DOMAIN wire
          /\ IsRequestFrame(wire[i]) /\ IsRequestFrame(wire[i + 1])
          /\ UidIndex(wire[i + 1]["uid"]) = UidIndex(wire[i]["uid"]) + 1
    /\ \E h \in DOMAIN streams :
          LET sent == StreamFramesOf(wire, streams[h].uid) IN
          /\ Len(sent) >= 2
          /\ sent[1]["kind"] # sent[2]["kind"]

---------------------------------------------------------------------------
(* Properties of streams (C3, C7 checked under SpecStream, C6 under         *)
(* SpecCancel).  Handle h reads the queue h: open_stream and accept_stream *)
(* make both together.                                                     *)

IsEndFrame(m) == m["kind"] \in {"close", "error"}

\* the frames that arrived before the first close or error frame
RECURSIVE DataPrefix(_)
DataPrefix(a) ==
    IF a = << >> \/ IsEndFrame(Head(a))
    THEN << >>
    ELSE << Head(a) >> \o DataPrefix(Tail(a))

\* C3: iterating a stream yields the frames that arrived for it, each once
\* and in arrival order, up to the first close frame, and then ends cleanly:
\* after a, b, c, close the iteration has given [a, b, c] and stopped without
\* an error.
C3_IterationYieldsInOrder ==
    \A h \in DOMAIN streams :
        LET s == streams[h]
            a == arrived[h]
        IN /\ IsPrefix(s.got, DataPrefix(a))
           /\ s.ended =>
                 /\ s.got = DataPrefix(a)
                 /\ Len(a) > Len(s.got)
                 /\ a[Len(s.got) + 1]["kind"] = "close"
                 /\ s.failed = << >>
                 /\ s.closed

C3_Witness ==
    \E h \in DOMAIN streams :
        /\ arrived[h] = << [kind |-> "a"], [kind |-> "b", text |-> "hi"],
                           [kind |-> "c"], [kind |-> "close"] >>
        /\ streams[h].got = << [kind |-> "a"], [kind |-> "b", text |-> "hi"],
                               [kind |-> "c"] >>
        /\ streams[h].ended
        /\ streams[h].failed = << >>

\* the number of frames recv() has taken off the queue of a handle
Taken(s) == Len(s.got) + (IF s.ended \/ s.failed # << >> THEN 1 ELSE 0)

\* C6: cancelling a pending recv() loses nothing: on a stream whose recv()
\* was cancelled, the frames recv() has returned are the first that arrived,
\* in order, and the queue still holds every later one, so that the retried
\* recv() returns the next frame.
C6_CancelledRecvLosesNothing ==
    \A h \in DOMAIN streams :
        LET s == streams[h]
            a == arrived[h]
        IN s.cancels > 0 =>
              /\ Taken(s) <= Len(a)
              /\ s.got = SubSeq(a, 1, Len(s.got))
              /\ queues[h] = SubSeq(a, Taken(s) + 1, Len(a))

\* a recv() was cancelled, and a recv() called afterwards returned a frame;
\* every frame that arrived has been returned
C6_Witness ==
    \E h \in DOMAIN streams :
        /\ streams[h].cancels > 0
        /\ streams[h].retried
        /\ streams[h].got # << >>
        /\ streams[h].got = arrived[h]

\* the message of the exception recv() raises on the error frame m
ErrorOf(m) ==
    IF "error" \in DOMAIN m /\ IsStr(m["error"])
    THEN m["error"]
    ELSE "Stream closed with unspecified error"

\* C7: the recv() that takes an error frame off a stream's queue fails with
\* the error the frame carries (or the generic one), closes the stream and
\* removes its uid from the stream table; no later recv() on the handle fails
\* with a stream error again, its queue gets no further frame, and a frame
\* that arrives on the uid while nobody has registered it again goes to the
\* new-stream handler, or without one is answered with a stream error.
C7_ErrorFrameFailsOnceAndDeregisters ==
    [][\A h \in DOMAIN streams :
         LET s == streams[h]
             t == streams'[h]
         IN /\ ( /\ queues[h] # << >>
                 /\ Head(queues[h])["kind"] = "error"
                 /\ queues'[h] = Tail(queues[h]) )
               => /\ s.failed = << >>
                  /\ t.failed = << ErrorOf(Head(queues[h])) >>
                  /\ t.closed
                  /\ s.uid \notin DOMAIN incoming_by_stream_uid'
                  /\ raised' = "Exception"
            /\ t.failed # s.failed
               => (queues[h] # << >> /\ Head(queues[h])["kind"] = "error")
            /\ s.failed # << >>
               => /\ t.failed = s.failed
                  /\ t.closed
                  /\ queues'[h] = queues[h]
                  /\ arrived'[h] = arrived[h]
            /\ ( /\ s.failed # << >>
                 /\ Dispatching
                 /\ IsStreamFrameOf(Frame, s.uid)
                 /\ s.uid \notin DOMAIN incoming_by_stream_uid )
               => IF new_stream_handler = "none"
                  THEN /\ route' = "stream_error"
                       /\ accepted' = Append(accepted,
                             StreamErrorMessage(s.uid, "Incoming streams are not supported"))
                  ELSE /\ route' = "new_stream_handler"
                       /\ handler_calls' = Append(handler_calls, << s.uid, Frame["kind"] >>)
    ]_vars

\* a stream failed with the error of its error frame, and a frame that came
\* later on its uid was given to the new-stream handler
C7_Witness ==
    \E h \in DOMAIN streams :
        /\ streams[h].failed = << "boom" >>
        /\ streams[h].closed
        /\ streams[h].uid \notin DOMAIN incoming_by_stream_uid
        /\ last_frame # << >>
        /\ IsStreamFrameOf(last_frame[1], streams[h].uid)
        /\ route = "new_stream_handler"
        /\ handler_calls # << >>
        /\ handler_calls[Len(handler_calls)][1] = streams[h].uid

---------------------------------------------------------------------------
(* Inbound activity nobody asked for (checked under SpecUnsolicited). *)

\* requests the peer makes
RequestFrames ==
    { RequestMessage("x1", "ping", None),
      RequestMessage("x2", "transcribe", [language_code |-> "en"]) }

\* frames of streams the peer opens
PeerStreamFrames ==
    { StreamMessage("x1", DataBodies[dispatched + 1].kind, EmptyMap),
      StreamMessage("x2", "close", EmptyMap) }

\* an engine without handlers: the peer makes requests and opens streams,
\* and sends frames on the streams opened here
NextUnsolicited ==
    \/ Start
    \/ OpenStream
    \/ \E m \in RequestFrames \cup PeerStreamFrames \cup StreamFrames :
          RecvLoopStep(m, MaxUnsolicited)
    \/ SendLoopGet
    \/ SendLoopWrite

SpecUnsolicited == Init /\ [][NextUnsolicited]_vars

\* C11: with no request handler, a request frame is answered with an error
\* response for its uid; with no new-stream handler, a stream frame for a uid
\* that is not in the stream table is answered with a stream error frame for
\* that uid; either way the receive loop goes on.
C11_UnroutableIsAnswered ==
    [][ /\ (Dispatching /\ Frame["type"] = "request")
           => /\ accepted' = Append(accepted,
                    [type |-> "response", uid |-> Frame["uid"], kind |-> "error",
                     error |-> "Incoming requests are not supported"])
              /\ recv_task' = "running"
        /\ ( /\ Dispatching
             /\ Frame["type"] = "stream"
             /\ Frame["uid"] \notin DOMAIN incoming_by_stream_uid
             /\ new_stream_handler = "none" )
           => /\ accepted' = Append(accepted,
                    [type |-> "stream", uid |-> Frame["uid"], kind |-> "error",
                     error |-> "Incoming streams are not supported"])
              /\ recv_task' = "running"
    ]_vars

\* a request and a stream frame of the peer were both answered, and the
\* answers were written
C11_Witness ==
    /\ Len(wire) >= 2
    /\ \E i, j \in DOMAIN wire :
          /\ wire[i] = [type |-> "response", uid |-> "x2", kind |-> "error",
                        error |-> "Incoming requests are not supported"]
          /\ wire[j] = [type |-> "stream", uid |-> "x1", kind |-> "error",
                        error |-> "Incoming streams are not supported"]

---------------------------------------------------------------------------
(* Stopping the engine (checked under SpecStop). *)

\* an engine that is started, used and left by any exit path, at any moment
NextStop ==
    \/ Start
    \/ \E c \in {x \in Calls : x.kind = "ping"} : MakeRequest(c)
    \/ \E m \in ResponseFrames \cup MalformedFrames \cup SessionErrorFrames :
          RecvLoopStep(m, MaxStopIn)
    \/ SendLoopGet
    \/ SendLoopWrite
    \/ ChannelCloseFinish
    \/ \E why \in ExitPaths : StopCancelRecvLoop(why)
    \/ StopCancelSendLoop
    \/ StopRelease

SpecStop == Init /\ [][NextStop]_vars

\* C12: whatever the exit path, the receive loop is over before the closing
\* of the channel begins; the send loop is over before the transport is
\* released; and once the stop has returned the receive loop and the send
\* loop are over and the transport is released.
C12_StopCancelsLoopThenClosesChannel ==
    [][ /\ (stop'.pc \in {"send_cancelled", "stopped"}) => recv_task' = "exited"
        /\ (websocket /\ ~websocket') => send_task' = "done"
        /\ (stop'.pc = "stopped")
           => /\ recv_task' = "exited"
              /\ send_task' = "done"
              /\ ~websocket'
              /\ sending' = << >>
    ]_vars

\* the caller was cancelled while a request it had made was still in the
\* send queue and the receive loop was waiting for a frame; the stop returned
C12_Witness ==
    /\ stop = [pc |-> "stopped", why |-> "cancelled"]
    /\ recv_error = ""
    /\ send_queue # << >>
    /\ dispatched > 0

---------------------------------------------------------------------------
(* The request table (checked under Spec). *)

\* the step just taken dispatched a well-formed response to a request that
\* was pending
AnswersPending ==
    /\ Dispatching
    /\ WellFormedResponse(Frame)
    /\ Frame["uid"] \in DOMAIN future_by_uid
    /\ future_by_uid[Frame["uid"]].st = "pending"

\* C13 (as claimed): once the response to a pending request has been
\* dispatched, the request's uid is no longer in the request table.
C13_ResponseRemovesRequest ==
    [][ AnswersPending => Frame["uid"] \notin DOMAIN future_by_uid' ]_vars

\* C14: an error response for a pending request U sets U's future, and no
\* other, to a failure: every other future and every derived future is left
\* as it was and the receive loop goes on; and any response to a pending
\* request, whatever was answered before it, resolves that request's future
\* and no other.
C14_ErrorResponseFailsOnlyItsRequest ==
    [][ AnswersPending
        => /\ future_by_uid'[Frame["uid"]].st =
                 IF Frame["kind"] = "error" THEN "exception" ELSE "result"
           /\ Frame["kind"] = "error"
              => future_by_uid'[Frame["uid"]].err.msg = Frame["error"]
           /\ \A v \in DOMAIN future_by_uid \ {Frame["uid"]} :
                 future_by_uid'[v] = future_by_uid[v]
           /\ DOMAIN future_by_uid' = DOMAIN future_by_uid
           /\ derived' = derived
           /\ recv_task' = "running"
    ]_vars

\* two requests were pending; the second was answered first, with an error,
\* and the first was then resolved by its own response
C14_Witness ==
    /\ {Uuid4(1), Uuid4(2)} \subseteq DOMAIN future_by_uid
    /\ future_by_uid[Uuid4(2)].st = "exception"
    /\ future_by_uid[Uuid4(1)].st = "result"
    /\ last_frame # << >>
    /\ last_frame[1]["uid"] = Uuid4(1)
    /\ recv_task = "running"

---------------------------------------------------------------------------
(* Sending operations given a kind and fields that disagree (checked under
   SpecSend). *)

\* calls of make_request and Stream.send whose fields hold another kind
ConflictingCalls == { [kind |-> "ping", f |-> "", fields |-> [kind |-> "pong"]] }

ConflictingSends == { [kind |-> "interact", fields |-> [kind |-> "add_audio", text |-> "hi"]] }

\* the calls of send, close, fail and close_silently made on the handles
RECURSIVE StreamCalls(_)
StreamCalls(ss) ==
    IF ss = << >> THEN 0 ELSE Head(ss).sends + Head(ss).closes + StreamCalls(Tail(ss))

\* the requests and the stream calls made so far
CallsMade == Cardinality(DOMAIN future_by_uid) + StreamCalls(streams)

\* callers that make requests, send on streams, close them and send
\* responses, with fields that agree with the kind and fields that do not
NextSend ==
    \/ Start
    \/ OpenStream
    \/ /\ CallsMade < MaxCalls
       /\ \E c \in {x \in Calls : x.kind = "ping"} \cup ConflictingCalls : MakeRequest(c)
    \/ /\ CallsMade < MaxCalls
       /\ \E h \in DOMAIN streams :
             \E c \in StreamSends \cup ConflictingSends : StreamSend(h, c)
    \/ /\ CallsMade < MaxCalls
       /\ \E h \in DOMAIN streams : \E fields \in CloseFields : StreamClose(h, fields)
    \/ \E r \in Responses : SendResponse(r)

SpecSend == Init /\ [][NextSend]_vars

\* the step just taken called a sending operation
Calling == last_call' # << >>

\* the call it made
Call == last_call'[1]

\* the call's fields hold a kind other than the call's kind
Disagree(call) ==
    /\ call.fields # None
    /\ "kind" \in DOMAIN call.fields
    /\ call.fields["kind"] # call.kind

\* the Stream of that uid is closed
ClosedStream(uid) == \E h \in DOMAIN streams : streams[h].uid = uid /\ streams[h].closed

\* C15: make_request, Stream.send, Stream.close and send_response, called
\* with a kind and with fields whose "kind" key holds another kind, raise
\* (ValueError; RuntimeError when it is send on a closed stream) and no frame
\* is accepted or enqueued; a stream whose close was rejected stays open and
\* registered.
C15_ConflictingKindIsRejected ==
    [][ ( /\ Calling
          /\ Call.op \in {"make_request", "send", "close", "send_response"}
          /\ Disagree(Call) )
        => /\ raised' = IF Call.op = "send" /\ ClosedStream(Call.uid)
                        THEN "RuntimeError" ELSE "ValueError"
           /\ accepted' = accepted
           /\ send_queue' = send_queue
           /\ wire' = wire
           /\ Call.op = "close"
              => /\ incoming_by_stream_uid' = incoming_by_stream_uid
                 /\ \A h \in DOMAIN streams : streams'[h].closed = streams[h].closed
    ]_vars

\* a close() with fields {kind: bye} was just rejected on an open stream,
\* after frames had been accepted, and the stream is still open
C15_Witness ==
    /\ raised = "ValueError"
    /\ last_call # << >>
    /\ last_call[1].op = "close"
    /\ last_call[1].fields = [kind |-> "bye"]
    /\ ~ClosedStream(last_call[1].uid)
    /\ last_call[1].uid \in DOMAIN incoming_by_stream_uid
    /\ Len(accepted) >= 2

---------------------------------------------------------------------------
(* Streams closed from this side (checked under SpecClose). *)

\* one stream that is sent on, read, closed, failed and closed silently while
\* the peer goes on sending frames on its uid
\* fields that hold no kind
AgreeingFields == { fields \in CloseFields : ~KindConflict("close", fields) }

\* the arguments the model's callers give to fail(): nothing, or an error
\* with fields
FailArguments ==
    { [error |-> "", fields |-> None],
      [error |-> "bad audio", fields |-> [reason |-> "done"]] }

\* the peer's next data frame and its close frame, on the uids of the streams
\* opened here
DataAndCloseFrames ==
    { StreamMessage(streams[h].uid, b.kind, b.fields) :
        h \in DOMAIN streams,
        b \in { DataBodies[dispatched + 1], [kind |-> "close", fields |-> EmptyMap] } }

NextClose ==
    \/ Start
    \/ streams = << >> /\ OpenStream
    \/ /\ CallsMade < MaxCloseCalls
       /\ \E h \in DOMAIN streams : StreamSend(h, [kind |-> "add_audio", fields |-> None])
    \/ /\ CallsMade < MaxCloseCalls
       /\ \E h \in DOMAIN streams : \E fields \in AgreeingFields : StreamClose(h, fields)
    \/ /\ CallsMade < MaxCloseCalls
       /\ \E h \in DOMAIN streams : \E a \in FailArguments :
             StreamFail(h, a.error, a.fields)
    \/ /\ CallsMade < MaxCloseCalls
       /\ \E h \in DOMAIN streams : StreamCloseSilently(h)
    \/ \E h \in DOMAIN streams : StreamRecv(h)
    \/ \E h \in DOMAIN streams : StreamRecvResume(h)
    \/ \E m \in DataAndCloseFrames : RecvLoopStep(m, MaxCloseIn)

SpecClose == InitStream /\ [][NextClose]_vars

\* the dict a call's fields argument stands for
Given(fields) == IF fields = None THEN EmptyMap ELSE fields

\* C16: Stream.send on a stream that is closed, however it was closed, raises
\* and no frame is accepted or enqueued; on an open stream, the channel being
\* connected, it has exactly one frame accepted and enqueued:
\* {type: stream, uid, kind, ...fields}.
C16_SendOnlyOnOpenStream ==
    [][ (Calling /\ Call.op = "send")
        => IF ClosedStream(Call.uid)
           THEN /\ raised' = "RuntimeError"
                /\ accepted' = accepted
                /\ send_queue' = send_queue
           ELSE (websocket /\ ~Disagree(Call))
                => LET frame == Merge(Given(Call.fields),
                                      [type |-> "stream", uid |-> Call.uid,
                                       kind |-> Call.kind])
                   IN /\ raised' = ""
                      /\ accepted' = Append(accepted, frame)
                      /\ send_queue' = Append(send_queue, frame)
    ]_vars

\* a send was just rejected on a stream whose recv() had consumed the peer's
\* close frame, after an earlier send on it had been accepted
C16_Witness ==
    /\ raised = "RuntimeError"
    /\ last_call # << >>
    /\ last_call[1].op = "send"
    /\ \E h \in DOMAIN streams :
          /\ streams[h].uid = last_call[1].uid
          /\ streams[h].closed
          /\ streams[h].ended
          /\ streams[h].by = ""
          /\ \E i \in DOMAIN accepted :
                /\ accepted[i]["type"] = "stream"
                /\ accepted[i]["uid"] = streams[h].uid

\* C17: Stream.close(fields) and Stream.fail(error, fields), the channel being
\* connected and the fields not holding another kind, have the close frame
\* {type: stream, uid, kind: close, ...fields}, or the error frame
\* {type: stream, uid, kind: error, ...fields, error}, accepted and enqueued,
\* and leave the stream closed and its uid out of the stream table.
C17_CloseAndFailSendAndDeregister ==
    [][ ( /\ Calling
          /\ Call.op \in {"close", "fail"}
          /\ websocket
          /\ ~Disagree(Call) )
        => LET given == IF Call.op = "fail" /\ Call.error # ""
                        THEN Merge(Given(Call.fields), [error |-> Call.error])
                        ELSE Given(Call.fields)
               frame == Merge(given, [type |-> "stream", uid |-> Call.uid,
                                      kind |-> Call.kind])
           IN /\ accepted' = Append(accepted, frame)
              /\ send_queue' = Append(send_queue, frame)
              /\ \A h \in DOMAIN streams :
                    streams[h].uid = Call.uid => streams'[h].closed
              /\ Call.uid \notin DOMAIN incoming_by_stream_uid'
    ]_vars

\* a stream was failed with an error and fields while its uid was
\* registered: the error frame is the last frame accepted
C17_Witness ==
    \E h \in DOMAIN streams :
        /\ streams[h].closed
        /\ streams[h].by = "fail"
        /\ streams[h].closes = 1
        /\ raised = ""
        /\ streams[h].uid \notin DOMAIN incoming_by_stream_uid
        /\ accepted # << >>
        /\ accepted[Len(accepted)] =
              [type |-> "stream", uid |-> streams[h].uid, kind |-> "error",
               reason |-> "done", error |-> "bad audio"]

\* the step just taken is close_silently() on handle h
ClosingSilently(h) ==
    /\ streams'[h].by = "silent"
    /\ streams'[h].closes = streams[h].closes + 1

\* the uid's Stream was closed silently
SilentlyClosed(uid) ==
    \E h \in DOMAIN streams :
        streams[h].uid = uid /\ streams[h].closed /\ streams[h].by = "silent"

\* C18: close_silently() leaves the stream closed and its uid out of the
\* stream table and sends nothing; a stream frame that arrives afterwards on
\* that uid goes to on_new_stream (the new-stream handler, or the stream
\* error sent when there is none) and into no queue.
C18_SilentCloseMakesUidNew ==
    [][ /\ \A h \in DOMAIN streams :
              ClosingSilently(h)
              => /\ streams'[h].closed
                 /\ streams[h].uid \notin DOMAIN incoming_by_stream_uid'
                 /\ accepted' = accepted
                 /\ send_queue' = send_queue
        /\ ( /\ Dispatching
             /\ Frame["type"] = "stream"
             /\ SilentlyClosed(Frame["uid"]) )
           => /\ route' = IF new_stream_handler = "none"
                          THEN "stream_error" ELSE "new_stream_handler"
              /\ queues' = queues
              /\ new_stream_handler # "none"
                 => handler_calls' = Append(handler_calls, << Frame["uid"], Frame["kind"] >>)
    ]_vars

\* a stream that had received a frame was closed silently, and the next frame
\* on its uid was given to the new-stream handler
C18_Witness ==
    /\ route = "new_stream_handler"
    /\ last_frame # << >>
    /\ SilentlyClosed(last_frame[1]["uid"])
    /\ handler_calls # << >>
    /\ \E q \in DOMAIN arrived : arrived[q] # << >>
    /\ accepted = << >>

---------------------------------------------------------------------------
(* The peer's top-level error (C19 checked under Spec, C20 under
   SpecInterrupt). *)

\* the frame is a top-level error as _on_message matches it
IsToplevelError(m) == Shape(m) = "error"

\* C19: dispatching a top-level error frame cancels the send loop and starts
\* the closing of the channel, whatever is pending; while the channel closes
\* and after the receive loop has exited no frame is dispatched, the loop
\* never runs again, and the transport, once released, is never connected
\* again.
C19_ToplevelErrorEndsSession ==
    [][ /\ (Dispatching /\ IsToplevelError(Frame))
           => /\ recv_task' = "closing"
              /\ send_task' = "done"
              /\ sending' = << >>
              /\ accepted' = accepted
        /\ recv_task = "closing"
           => /\ ~Dispatching
              /\ recv_task' \in {"closing", "exited"}
              /\ recv_task' = "exited" => ~websocket'
        /\ recv_task = "exited"
           => /\ ~Dispatching
              /\ recv_task' = "exited"
        /\ (recv_task # "none" /\ ~websocket) => ~websocket'
    ]_vars

\* the peer's error arrived while a request was pending and frames could
\* still be delivered: the channel is closed, no error frame was sent from
\* this side, and the receive loop has exited
C19_Witness ==
    /\ recv_task = "exited"
    /\ recv_error = "RuntimeError"
    /\ ~websocket
    /\ send_task = "done"
    /\ dispatched < MaxInbound
    /\ \A i \in DOMAIN accepted : accepted[i]["type"] # "error"
    /\ \E uid \in DOMAIN future_by_uid : future_by_uid[uid].st = "pending"

\* requests and a stream that wait while the peer answers, sends stream
\* frames, or sends a top-level error
NextInterrupt ==
    \/ Start
    \/ \E c \in {x \in Calls : x.kind = "ping"} : MakeRequest(c)
    \/ streams = << >> /\ OpenStream
    \/ \E h \in DOMAIN streams : StreamRecv(h)
    \/ \E h \in DOMAIN streams : StreamRecvResume(h)
    \/ \E m \in ResponseFrames \cup DataAndCloseFrames \cup SessionErrorFrames :
          RecvLoopStep(m, MaxInterruptIn)
    \/ ChannelCloseFinish

\* the event loop runs what is ready: the closing of the channel goes on to
\* its end and a recv() whose queue holds a frame is resumed.  Nothing
\* obliges the peer to send or the callers to call.
SpecInterrupt ==
    /\ Init
    /\ [][NextInterrupt]_vars
    /\ WF_vars(ChannelCloseFinish)
    /\ WF_vars(\E h \in DOMAIN streams : StreamRecvResume(h))

\* the top-level error has been dispatched
ToplevelErrorReceived == last_frame # << >> /\ IsToplevelError(last_frame[1])

\* no request future is pending and no recv() is suspended
NothingWaits ==
    /\ \A uid \in DOMAIN future_by_uid : future_by_uid[uid].st # "pending"
    /\ \A h \in DOMAIN streams : streams[h].pc # "waiting"

\* C20 (as claimed): once a top-level error frame has been received, every
\* pending request future and every suspended Stream.recv() is eventually
\* completed.
C20_ToplevelErrorInterruptsAll == ToplevelErrorReceived ~> NothingWaits

---------------------------------------------------------------------------
(* The channel's send and close (checked under SpecStop). *)

\* C21: a sending call made while the channel is not connected (before the
\* engine is started, after the channel was closed by fail, on_error or the
\* stop) raises RuntimeError and enqueues nothing; made while it is connected
\* it puts its one frame at the end of the send queue and returns: nothing is
\* written to the transport in that step and the send loop is where it was.
C21_SendEnqueuesOrFails ==
    [][ Calling
        => IF ~websocket
           THEN /\ raised' = "RuntimeError"
                /\ send_queue' = send_queue
                /\ accepted' = accepted
                /\ wire' = wire
           ELSE ~Disagree(Call)
                => /\ raised' = ""
                   /\ Len(accepted') = Len(accepted) + 1
                   /\ send_queue' = Append(send_queue, accepted'[Len(accepted')])
                   /\ accepted'[Len(accepted')]["uid"] = Call.uid
                   /\ wire' = wire
                   /\ sending' = sending
                   /\ send_task' = send_task
    ]_vars

\* a request made after the engine was stopped was just rejected; an earlier
\* one had been accepted and written
C21_Witness ==
    /\ stop.pc = "stopped"
    /\ ~websocket
    /\ raised = "RuntimeError"
    /\ last_call # << >>
    /\ last_call[1].op = "make_request"
    /\ wire # << >>
    /\ Len(accepted) = 1

\* the step just taken is a step of the close() the stop makes
StopClosing == stop.pc \in {"recv_cancelled", "send_cancelled"} /\ stop'.pc # stop.pc

\* C22: a close() of a channel that was closed before (its exit stack holds
\* nothing: fail or on_error closed it from inside the receive loop) raises
\* nothing and changes nothing: the channel stays disconnected, the send loop
\* stays over, queue and transport are as they were.
C22_SecondCloseDoesNothing ==
    [][ (StopClosing /\ exit_stack = << >>)
        => /\ raised' = ""
           /\ ~websocket /\ ~websocket'
           /\ send_task = "done" /\ send_task' = "done"
           /\ exit_stack' = << >>
           /\ << send_queue', sending', wire', accepted' >> =
                 << send_queue, sending, wire, accepted >>
    ]_vars

\* on_error or fail closed the channel from inside the receive loop, which
\* exited on "not connected"; the stop then closed the channel again and
\* returned
C22_Witness ==
    /\ stop.pc = "stopped"
    /\ recv_error = "RuntimeError"
    /\ raised = ""
    /\ ~websocket
    /\ send_task = "done"
    /\ exit_stack = << >>

---------------------------------------------------------------------------
(* Session.start (checked under SpecSession). *)

\* a Session with or without an access token
InitSession == InitOf({"none"}, {"none"}, {"", "tok123"})

\* a Session that is started and used: its callers make requests (before the
\* start too, which the channel rejects), the peer answers and makes requests
\* of its own, which the receive loop answers with an error response
NextSession ==
    \/ SessionStart
    \/ /\ CallsMade < MaxCalls
       /\ \E c \in {x \in Calls : x.kind # "transcribe"} : MakeRequest(c)
    \/ \E m \in ResponseFrames \cup RequestFrames : RecvLoopStep(m, MaxSessionIn)
    \/ SendLoopGet
    \/ SendLoopWrite

SpecSession == InitSession /\ [][NextSession]_vars

\* the frame is the authenticate request of the Session's token
IsAuthenticate(m) ==
    /\ m["type"] = "request"
    /\ m["kind"] = "authenticate"
    /\ "access_token" \in DOMAIN m
    /\ m["access_token"] = access_token

\* C23: in a Session that has an access token, once start() has returned a
\* frame has been enqueued, the first frame ever enqueued on the channel is
\* the authenticate request, and the first frame written to the transport, if
\* one is written, is that request.
C23_AuthenticateGoesFirst ==
    access_token # ""
    => /\ recv_task # "none" => accepted # << >>
       /\ accepted # << >> => IsAuthenticate(accepted[1])
       /\ wire # << >> => (IsAuthenticate(wire[1]) /\ wire[1] = accepted[1])

\* the Session's authenticate request was written first, then the error
\* response the receive loop gave to a request of the peer, while a caller
\* had tried a request before the start
C23_Witness ==
    /\ access_token # ""
    /\ Len(wire) >= 2
    /\ IsAuthenticate(wire[1])
    /\ wire[1]["uid"] # Uuid4(1)
    /\ wire[2]["type"] = "response"

\* C24 (as claimed): when the receive loop has ended with an exception other
\* than a cancellation, the stop that follows, on awaiting the scoped receive
\* task, raises that exception to the owning scope.
C24_RecvLoopFailureIsReraised ==
    [][ (stop.pc = "none" /\ stop'.pc = "recv_cancelled" /\ recv_error # "")
        => raised' = recv_error
    ]_vars

---------------------------------------------------------------------------
(* A transport that fails under the send loop (checked under SpecSendFail). *)

\* an engine whose writes can fail, closed by the peer's error, by fail, or
\* by the stop
NextSendFail ==
    \/ Start
    \/ \E c \in {x \in Calls : x.kind = "ping"} : MakeRequest(c)
    \/ \E m \in MalformedFrames \cup SessionErrorFrames : RecvLoopStep(m, MaxFailIn)
    \/ SendLoopGet
    \/ SendLoopWrite
    \/ SendLoopWriteFails
    \/ ChannelCloseFinish
    \/ \E why \in ExitPaths : StopCancelRecvLoop(why)
    \/ StopCancelSendLoop
    \/ StopRelease

SpecSendFail == Init /\ [][NextSendFail]_vars

\* C25: a send loop that is cancelled by close() ends without error: the
\* close that cancelled it raises nothing.  A send loop whose write failed is
\* over and writes nothing more, and the close() that awaits it raises the
\* failure: to the stop, or inside the receive loop when fail or on_error
\* closes the channel.
C25_SendLoopCancelOrFailure ==
    [][ /\ ( /\ send_task \in {"idle", "writing"}
             /\ exit_stack # << >> /\ Top(exit_stack) = "send_loop"
             /\ exit_stack' # exit_stack )
           => send_task' = "done"
        /\ (stop.pc = "send_cancelled" /\ stop'.pc = "stopped" /\ exit_stack # << >>)
           => raised' = IF send_task = "failed" THEN "ConnectionClosed" ELSE ""
        /\ (recv_task = "closing" /\ recv_task' = "exited" /\ stop' = stop)
           => recv_error' = IF send_task = "failed" THEN "ConnectionClosed"
                            ELSE "RuntimeError"
        /\ send_task = "failed" => (send_task' = "failed" /\ wire' = wire)
    ]_vars

\* a write failed after an earlier one had succeeded, and the stop's close
\* raised the failure
C25_Witness ==
    /\ stop.pc = "stopped"
    /\ raised = "ConnectionClosed"
    /\ send_task = "failed"
    /\ Len(wire) = 1
    /\ Len(accepted) = 2

---------------------------------------------------------------------------
(* Error responses without an error (checked under SpecBadError). *)

\* requests answered well, or with an error response that carries no string
\* error
NextBadError ==
    \/ Start
    \/ \E c \in {x \in Calls : x.kind # "transcribe"} : MakeRequest(c)
    \/ \E uid \in DOMAIN derived : RunResolver(uid)
    \/ \E m \in ResponseFrames \cup BadErrorResponses : RecvLoopStep(m, MaxBadIn)
    \/ SendLoopGet
    \/ SendLoopWrite
    \/ ChannelCloseFinish

SpecBadError == Init /\ [][NextBadError]_vars

\* a response frame of kind "error" whose error is missing or not a string
IsBadErrorResponse(m) ==
    /\ Shape(m) = "response"
    /\ m["kind"] = "error"
    /\ ("error" \notin DOMAIN m \/ ~IsStr(m["error"]))

\* C26: dispatching a response of kind "error" without a string error fails
\* the engine: the top-level error frame that names the kind and fields
\* received is accepted by the channel, the send loop is cancelled and the
\* channel starts closing; no request future is touched, so the request of that
\* uid is not resolved.
C26_ErrorResponseWithoutErrorFails ==
    [][ (Dispatching /\ IsBadErrorResponse(Frame))
        => /\ route' = "fail"
           /\ accepted' = Append(accepted,
                 [type |-> "error",
                  error |-> Format("Unexpected response message ",
                                   << "error", Rest(Frame, {"type", "uid", "kind"}) >>)])
           /\ send_task' = "done"
           /\ recv_task' = "closing"
           /\ future_by_uid' = future_by_uid
           /\ derived' = derived
    ]_vars

\* an error response whose error is a number was just dispatched for a
\* pending request: the request is still pending and the channel is closing
C26_Witness ==
    /\ last_frame # << >>
    /\ IsBadErrorResponse(last_frame[1])
    /\ "error" \in DOMAIN last_frame[1]
    /\ last_frame[1]["uid"] \in DOMAIN future_by_uid
    /\ future_by_uid[last_frame[1]["uid"]].st = "pending"
    /\ recv_task = "closing"
    /\ accepted[Len(accepted)]["type"] = "error"

---------------------------------------------------------------------------
(* Streams the peer opens and a handler accepts (checked under SpecAccept). *)

\* an RPC whose new-stream handler calls accept_stream(uid)
InitAccept == InitWith({"accept"})

\* the peer's next data frame and its close frame, on uids of its choosing
PeerOpenedFrames ==
    { StreamMessage(uid, b.kind, b.fields) :
        uid \in {"x1", "x2"},
        b \in { DataBodies[dispatched + 1], [kind |-> "close", fields |-> EmptyMap] } }

\* the peer opens streams and sends on them; the accepted Streams are read
NextAccept ==
    \/ Start
    \/ \E m \in PeerOpenedFrames : RecvLoopStep(m, MaxAcceptIn)
    \/ \E h \in DOMAIN streams : StreamRecv(h)
    \/ \E h \in DOMAIN streams : StreamRecvResume(h)

SpecAccept == InitAccept /\ [][NextAccept]_vars

\* the step just taken dispatched a stream frame
DispatchingStream == Dispatching /\ Shape(Frame) = "stream"

\* C27: a stream frame for a uid that is not registered is given to the
\* new-stream handler, whose accept_stream(uid) registers the uid with an
\* empty queue and an open Stream; a stream frame for a uid that is registered
\* is put at the end of that uid's queue, nothing else is queued, and the
\* handler is not called.
C27_AcceptedStreamReceivesLaterFrames ==
    [][ /\ (DispatchingStream /\ Frame["uid"] \in DOMAIN incoming_by_stream_uid)
           => LET q == incoming_by_stream_uid[Frame["uid"]]
                  m == [k \in DOMAIN Frame \ {"type", "uid"} |-> Frame[k]]
              IN /\ handler_calls' = handler_calls
                 /\ queues' = [queues EXCEPT ![q] = Append(@, m)]
                 /\ arrived' = [arrived EXCEPT ![q] = Append(@, m)]
                 /\ incoming_by_stream_uid' = incoming_by_stream_uid
        /\ ( /\ DispatchingStream
             /\ Frame["uid"] \notin DOMAIN incoming_by_stream_uid
             /\ new_stream_handler = "accept"
             /\ Len(streams) < MaxHandles )
           => /\ handler_calls' = Append(handler_calls, << Frame["uid"], Frame["kind"] >>)
              /\ Frame["uid"] \in DOMAIN incoming_by_stream_uid'
              /\ queues'[incoming_by_stream_uid'[Frame["uid"]]] = << >>
              /\ streams'[Len(streams')].uid = Frame["uid"]
              /\ ~streams'[Len(streams')].closed
    ]_vars

\* the handler was called once, for the frame that opened the stream, and the
\* accepted Stream has returned the two frames that came after it, in order
C27_Witness ==
    /\ Len(handler_calls) = 1
    /\ Len(streams) = 1
    /\ streams[1].uid = handler_calls[1][1]
    /\ Len(streams[1].got) = 2
    /\ streams[1].got = arrived[incoming_by_stream_uid[streams[1].uid]]
    /\ streams[1].got[1] # streams[1].got[2]

---------------------------------------------------------------------------
(* What fail leaves on the transport (checked under SpecChan). *)

\* the top-level error frames the engine handed to the channel
FailFrames == { i \in DOMAIN accepted : accepted[i]["type"] = "error" }

\* C28: once the connection that fail closes is closed, every top-level error
\* frame that fail handed to the connected channel has been written to the
\* transport.
C28_FailWritesErrorBeforeClosing ==
    (recv_task = "exited" /\ ~websocket)
        => \A i \in FailFrames : \E j \in DOMAIN wire : wire[j] = accepted[i]

---------------------------------------------------------------------------
(* Handlers that suspend (checked under SpecHandler). *)

\* an RPC whose request handler and new-stream handler await before returning
InitHandler == InitOf({"slow"}, {"slow"}, {""})

\* the peer's next data frame on the streams opened here
OpenedStreamData ==
    { StreamMessage(streams[h].uid, DataBodies[dispatched + 1].kind, EmptyMap) :
        h \in DOMAIN streams }

\* requests and new streams of the peer, responses to the engine's request
\* and frames of the engine's stream arrive; the handlers return or raise;
\* the engine is stopped
NextHandler ==
    \/ Start
    \/ /\ requested = EmptyMap
       /\ \E c \in {x \in Calls : x.kind = "ping" /\ x.f = ""} : MakeRequest(c)
    \/ streams = << >> /\ OpenStream
    \/ \E m \in RequestFrames \cup PeerStreamFrames \cup ResponseFrames \cup OpenedStreamData :
          RecvLoopStep(m, MaxHandlerIn)
    \/ HandlerReturn
    \/ HandlerRaises
    \/ \E why \in ExitPaths : StopCancelRecvLoop(why)
    \/ StopCancelSendLoop
    \/ StopRelease

SpecHandler == InitHandler /\ [][NextHandler]_vars

\* C29: while a request handler or new-stream handler called by the receive
\* loop has not returned, no frame is dispatched, no request future changes
\* its state and no stream queue receives a frame.
C29_NothingDispatchedDuringHandler ==
    [][ recv_task = "handling"
        => /\ ~Dispatching
           /\ dispatched' = dispatched
           /\ \A uid \in DOMAIN future_by_uid : future_by_uid'[uid] = future_by_uid[uid]
           /\ \A q \in DOMAIN arrived : arrived'[q] = arrived[q]
    ]_vars

\* a handler is suspended for the second time, while a request is pending
\* and a stream is registered
C29_Witness ==
    /\ recv_task = "handling"
    /\ Len(handler_calls) = 2
    /\ \E uid \in DOMAIN future_by_uid : future_by_uid[uid].st = "pending"
    /\ \E h \in DOMAIN streams : streams[h].uid \in DOMAIN incoming_by_stream_uid

---------------------------------------------------------------------------
(* The end of the receive loop and those who wait (checked under SpecEnd). *)

\* requests are made while the engine runs and a stream is read; the peer
\* answers, sends and closes the connection; the engine is stopped
NextEnd ==
    \/ Start
    \/ /\ recv_task = "running"
       /\ \E c \in {x \in Calls : x.kind = "ping" /\ x.f = ""} : MakeRequest(c)
    \/ streams = << >> /\ OpenStream
    \/ \E h \in DOMAIN streams : StreamRecv(h)
    \/ \E h \in DOMAIN streams : StreamRecvResume(h)
    \/ \E m \in ResponseFrames \cup DataAndCloseFrames : RecvLoopStep(m, MaxEndIn)
    \/ RecvLoopPeerClosed
    \/ \E why \in ExitPaths : StopCancelRecvLoop(why)
    \/ StopCancelSendLoop
    \/ StopRelease

\* the event loop runs what is ready: a recv() whose queue holds a frame is
\* resumed and a stop that has begun goes on to its end.  Nothing obliges the
\* peer to send or the callers to call.
SpecEnd ==
    /\ Init
    /\ [][NextEnd]_vars
    /\ WF_vars(\E h \in DOMAIN streams : StreamRecvResume(h))
    /\ WF_vars(StopCancelSendLoop)
    /\ WF_vars(StopRelease)

\* the receive loop has ended without a failure: the peer closed the
\* connection cleanly or the engine's stop cancelled the loop
RecvLoopEndedCleanly == recv_task = "exited" /\ recv_error = ""

\* C30 (as claimed): once the receive loop has ended because the peer closed
\* the connection cleanly or the engine was stopped, every pending request
\* future and every suspended Stream.recv() is eventually completed.
C30_LoopEndCompletesWaiters == RecvLoopEndedCleanly ~> NothingWaits

---------------------------------------------------------------------------
(* Two engines connected back to back, neither with a handler (checked     *)
(* under SpecPair).  The engine of the other variables is the first; the   *)
(* second runs the same code and reads what the first writes.              *)

NotSupported == "Incoming streams are not supported"

\* what the second engine's _on_message sends for a frame: it has no
\* handler, no pending request and, its streams being closed, no registered
\* stream
PeerOnMessage(m) ==
    CASE Shape(m) = "stream" -> << StreamErrorMessage(m["uid"], NotSupported) >>
      [] Shape(m) = "request" ->
            << ErrorResponseMessage(m["uid"], "Incoming requests are not supported") >>
      [] OTHER -> << >>

\* the second engine's application: with rpc.open_stream() as s: s.send(kind).
\* The data frame and the close frame are written and the uid is registered
\* at neither end.
PeerOpenSendClose(kind) ==
    LET closed == Len(SelectSeq(peer_wire, LAMBDA m : m["kind"] = "close"))
        uid == << "p1", "p2", "p3", "p4" >>[closed + 1]
    IN
    /\ closed < MaxPeerStreams
    /\ websocket
    /\ peer_wire' = peer_wire \o << StreamMessage(uid, kind, EmptyMap),
                                    StreamMessage(uid, "close", EmptyMap) >>
    /\ UNCHANGED peer_dispatched
    /\ NoDispatch
    /\ NoCall
    /\ raised' = ""
    /\ UNCHANGED << stop, conf_vars >>
    /\ UNCHANGED << chan_vars, loop_vars, dispatched, req_vars, stream_vars,
                    handler_calls, new_stream_handler, uuids, requested >>

\* the second engine's _recv_loop takes the next frame the first engine
\* wrote and dispatches it; what it sends is written by its send loop
PeerRecvLoopStep ==
    /\ peer_dispatched < Len(wire)
    /\ peer_dispatched' = peer_dispatched + 1
    /\ peer_wire' = peer_wire \o PeerOnMessage(wire[peer_dispatched + 1])
    /\ NoDispatch
    /\ NoCall
    /\ raised' = ""
    /\ UNCHANGED << stop, conf_vars >>
    /\ UNCHANGED << chan_vars, loop_vars, dispatched, req_vars, stream_vars,
                    handler_calls, new_stream_handler, uuids, requested >>

\* the next frame of the second engine that the first has not yet received
PeerFrames ==
    IF dispatched < Len(peer_wire) THEN { peer_wire[dispatched + 1] } ELSE {}

NextPair ==
    \/ Start
    \/ \E kind \in {"a", "b"} : PeerOpenSendClose(kind)
    \/ \E m \in PeerFrames : RecvLoopStep(m, MaxExchange)
    \/ SendLoopGet
    \/ SendLoopWrite
    \/ PeerRecvLoopStep

SpecPair == Init /\ [][NextPair]_vars

\* the reply an engine without a new-stream handler makes to a stream frame
IsNotSupportedReply(m) ==
    /\ Shape(m) = "stream"
    /\ m["kind"] = "error"
    /\ "error" \in DOMAIN m
    /\ m["error"] = NotSupported

\* C31 (as claimed): between two engines without a new-stream handler the
\* stream-error reply to a frame for a uid registered on neither side is not
\* itself answered with a frame, so that the exchange ends.
C31_ErrorReplyIsNotAnswered ==
    [][ (Dispatching /\ IsNotSupportedReply(Frame)) => accepted' = accepted ]_vars

---------------------------------------------------------------------------
(* Frames that follow the end of a stream (checked under SpecStream). *)

\* C32 (as claimed): no stream queue holds a frame behind a close or error
\* frame: once the close or error frame of a uid has been dispatched, later
\* frames for the uid are not put on the stream's queue, whether or not
\* recv() has consumed the close or error frame.
C32_NothingQueuedBehindEndFrame ==
    \A q \in DOMAIN queues :
        \A i \in DOMAIN queues[q] : IsEndFrame(queues[q][i]) => i = Len(queues[q])

---------------------------------------------------------------------------
(* The closed flag of a handle and the stream table (checked under         *)
(* SpecTable).                                                             *)

\* a stream is opened here, used and closed in each of the three ways; the
\* peer goes on sending on its uid and the new-stream handler accepts
NextTable ==
    \/ Start
    \/ streams = << >> /\ OpenStream
    \/ /\ CallsMade < MaxTableCalls
       /\ \E h \in DOMAIN streams : StreamSend(h, [kind |-> "add_audio", fields |-> None])
    \/ /\ CallsMade < MaxTableCalls
       /\ \E h \in DOMAIN streams : StreamClose(h, None)
    \/ /\ CallsMade < MaxTableCalls
       /\ \E h \in DOMAIN streams : StreamFail(h, "bad audio", None)
    \/ /\ CallsMade < MaxTableCalls
       /\ \E h \in DOMAIN streams : StreamCloseSilently(h)
    \/ \E h \in DOMAIN streams : StreamRecv(h)
    \/ \E h \in DOMAIN streams : StreamRecvResume(h)
    \/ \E m \in DataAndCloseFrames : RecvLoopStep(m, MaxTableIn)

SpecTable == InitAccept /\ [][NextTable]_vars

\* C33 (as claimed): the closed flag of the handle that open_stream returned
\* is true exactly when the handle's uid is absent from the stream table.
C33_ClosedIffDeregistered ==
    streams # << >>
        => (streams[1].closed <=> streams[1].uid \notin DOMAIN incoming_by_stream_uid)

---------------------------------------------------------------------------
(* Sending after the send loop has failed (checked under SpecSendFail). *)

\* C34 (as claimed): once the send loop has ended because a write failed, a
\* call that sends a frame raises and no frame is enqueued any more.
C34_SendFailsAfterSendLoopFailed ==
    [][ send_task = "failed"
        => /\ accepted' = accepted
           /\ Calling => raised' # ""
    ]_vars

---------------------------------------------------------------------------
(* A recv() pending while the stream is closed from another task (checked  *)
(* under SpecCloseFair).                                                   *)

\* the event loop runs what is ready: a recv() whose queue holds a frame is
\* resumed.  Nothing obliges the peer to send or the callers to call.
SpecCloseFair ==
    /\ InitStream
    /\ [][NextClose]_vars
    /\ WF_vars(\E h \in DOMAIN streams : StreamRecvResume(h))

\* a recv() is suspended on a stream that close, fail or close_silently has
\* closed from another task
ClosedUnderRecv ==
    \E h \in DOMAIN streams : streams[h].pc = "waiting" /\ streams[h].closed

\* no recv() is suspended
NoRecvWaits == \A h \in DOMAIN streams : streams[h].pc # "waiting"

\* C35 (as claimed): a recv() that is pending when its stream is closed
\* locally is eventually completed.
C35_LocalCloseCompletesRecv == ClosedUnderRecv ~> NoRecvWaits

---------------------------------------------------------------------------
(* Closing a stream that is closed already (checked under SpecClose). *)

\* C36 (as claimed): Stream.close() and Stream.fail() on a stream that is
\* already closed, locally or by a close or error frame that recv() consumed,
\* send no frame and raise nothing (the channel being connected).
C36_ClosingTwiceDoesNothing ==
    [][ (Calling /\ Call.op \in {"close", "fail"} /\ ClosedStream(Call.uid) /\ websocket)
        => /\ accepted' = accepted
           /\ raised' = ""
    ]_vars

---------------------------------------------------------------------------
(* make_request calls that raise (checked under SpecSend). *)

\* C37 (as claimed): a make_request that raises, because its fields hold
\* another kind or because the channel is not connected, leaves the table of
\* pending requests as it was.
C37_FailedRequestLeavesNoFuture ==
    [][ (Calling /\ Call.op = "make_request" /\ raised' # "")
        => future_by_uid' = future_by_uid
    ]_vars

=============================================================================
